---- MODULE Spec2Model ----
(***************************************************************************)
(* Model of the Bitrix24 MCP server (bitrix_mcp): the BitrixClient         *)
(* wrapper, the seven tool groups and the tool wrappers of create_server.  *)
(*                                                                         *)
(* A tool invocation is one action: it draws the arguments and the         *)
(* behaviour of the remote transport for that invocation (a stub that      *)
(* either raises or returns one response), runs the handler and records    *)
(* the requests the handler issued and what it returned or raised.         *)
(***************************************************************************)
EXTENDS Integers, Sequences, FiniteSets, TLC

VARIABLES
    connected,      \* BitrixClient._client is set (client.py:24)
    lifespan,       \* "down" | "up": app_lifespan is between its yield and its exit
    app_context,    \* server._app_context is set (server.py:90)
    pc,             \* "idle" | "returned": an invocation has just returned to its caller
    call,           \* the invocation: layer, group, op and arguments
    stub,           \* behaviour of the transport during the invocation
    out             \* what the invocation returned or raised, and the requests it issued

vars == <<connected, lifespan, app_context, pc, call, stub, out>>

(***************************************************************************)
(* Bounds of the model.                                                    *)
(***************************************************************************)
MaxRecords == 3

(***************************************************************************)
(* Program constants.                                                      *)
(***************************************************************************)
DefaultLimit == 50
DefaultDays == 60

(***************************************************************************)
(* Python / JSON values, tagged by type.                                   *)
(***************************************************************************)
None == [t |-> "null"]
B(b) == [t |-> "bool", b |-> b]
I(n) == [t |-> "int", i |-> n]
S(s) == [t |-> "str", s |-> s]
L(q) == [t |-> "list", l |-> q]
T(q) == [t |-> "tuple", l |-> q]
D(f) == [t |-> "dict", d |-> f]
Coroutine == [t |-> "coroutine"]
NoParams == [t |-> "noparams"]
EmptyDict == [k \in {} |-> None]

IsNone(v) == v.t = "null"
IsDict(v) == v.t = "dict"
IsList(v) == v.t = "list"
Has(v, k) == k \in DOMAIN v.d
DictSet(v, k, x) == D((k :> x) @@ v.d)
DictPop(v, k) == D([y \in DOMAIN v.d \ {k} |-> v.d[y]])

\* bool(v)
Truthy(v) ==
    CASE v.t = "null" -> FALSE
      [] v.t = "bool" -> v.b
      [] v.t = "int" -> v.i # 0
      [] v.t = "str" -> v.s # ""
      [] v.t \in {"list", "tuple"} -> Len(v.l) > 0
      [] v.t = "dict" -> DOMAIN v.d # {}
      [] OTHER -> TRUE

TypeName(v) ==
    CASE v.t = "null" -> "NoneType"
      [] OTHER -> v.t

(***************************************************************************)
(* Results of evaluating Python code: a value, or a raised exception,      *)
(* together with the transport requests issued on the way.                 *)
(***************************************************************************)
Val(v, calls) == [exc |-> FALSE, type |-> "", msg |-> "", v |-> v, calls |-> calls]
Raise(type, msg, calls) == [exc |-> TRUE, type |-> type, msg |-> msg, v |-> None, calls |-> calls]
\* the same result with the requests issued before it put in front
After(calls, r) == [r EXCEPT !.calls = calls \o r.calls]

\* v[0]
Subscript0(v) ==
    CASE v.t \in {"list", "tuple"} ->
            IF Len(v.l) > 0 THEN Val(v.l[1], <<>>)
            ELSE Raise("IndexError", v.t \o " index out of range", <<>>)
      [] v.t = "dict" -> Raise("KeyError", "0", <<>>)
      [] OTHER -> Raise("TypeError", "'" \o TypeName(v) \o "' object is not subscriptable", <<>>)

\* v[:n], n > 0
Slice(v, n) ==
    CASE v.t \in {"list", "tuple"} ->
            Val([v EXCEPT !.l = SubSeq(v.l, 1, IF n < Len(v.l) THEN n ELSE Len(v.l))], <<>>)
      [] v.t = "dict" -> Raise("TypeError", "unhashable type: 'slice'", <<>>)
      [] OTHER -> Raise("TypeError", "'" \o TypeName(v) \o "' object is not subscriptable", <<>>)

\* len(v)
PyLen(v) ==
    CASE v.t \in {"list", "tuple"} -> Val(I(Len(v.l)), <<>>)
      [] v.t = "dict" -> Val(I(Cardinality(DOMAIN v.d)), <<>>)
      [] OTHER -> Raise("TypeError", "object of type '" \o TypeName(v) \o "' has no len()", <<>>)

\* v.get(k, default)
DictGet(v, k, default) ==
    IF v.t = "dict"
    THEN Val(IF Has(v, k) THEN v.d[k] ELSE default, <<>>)
    ELSE Raise("AttributeError", "'" \o TypeName(v) \o "' object has no attribute 'get'", <<>>)

(***************************************************************************)
(* json.loads on the argument texts the model draws, and str.split(",").   *)
(***************************************************************************)

JsonLoads(s) ==
    CASE s = "{bad}" ->
            Raise("JSONDecodeError",
                  "Expecting property name enclosed in double quotes: line 1 column 2 (char 1)", <<>>)
      [] s = " " ->
            Raise("JSONDecodeError", "Expecting value: line 1 column 2 (char 1)", <<>>)
      [] s = "" ->
            Raise("JSONDecodeError", "Expecting value: line 1 column 1 (char 0)", <<>>)
      [] s = "{}" -> Val(D(EmptyDict), <<>>)
      [] s = "{\"STATUS_ID\": \"NEW\"}" -> Val(D([STATUS_ID |-> S("NEW")]), <<>>)
      [] s = "{\"DATE_CREATE\": \"DESC\"}" -> Val(D([DATE_CREATE |-> S("DESC")]), <<>>)
      [] s = "{\"TITLE\": \"ACME\"}" -> Val(D([TITLE |-> S("ACME")]), <<>>)
      [] s = "{\"id\": \"999\", \"GROUP_ID\": \"999\", \"TITLE\": \"ACME\"}" ->
            Val(D([id |-> S("999"), GROUP_ID |-> S("999"), TITLE |-> S("ACME")]), <<>>)
      [] s = "[1]" -> Val(L(<<I(1)>>), <<>>)
      [] s = "null" -> Val(None, <<>>)
      [] s = "{\"section\": [21, 44]}" -> Val(D([section |-> L(<<I(21), I(44)>>)]), <<>>)
      [] s = "{\"section\": null}" -> Val(D([section |-> None]), <<>>)
      [] s = "{\"TYPE\": \"group\", \"OWNER_ID\": \"7\", \"owner_id\": \"8\"}" ->
            Val(D([TYPE |-> S("group"), OWNER_ID |-> S("7"), owner_id |-> S("8")]), <<>>)
      [] s = "{\"type\": \"user\", \"ownerId\": \"x\"}" -> Val(D([type |-> S("user"), ownerId |-> S("x")]), <<>>)
      [] s = "{\"owner_id\": \"8\"}" -> Val(D([owner_id |-> S("8")]), <<>>)
      [] s = "{\"TYPE\": \"group\", \"type\": \"location\", \"OWNER_ID\": \"7\", \"ownerId\": \"5\"}" ->
            Val(D([TYPE |-> S("group"), type |-> S("location"), OWNER_ID |-> S("7"),
                   ownerId |-> S("5")]), <<>>)
      [] s = "[21, 44]" -> Val(L(<<I(21), I(44)>>), <<>>)
      [] s = "[\"44\", 99]" -> Val(L(<<S("44"), I(99)>>), <<>>)
      [] s = "44,99" -> Raise("JSONDecodeError", "Extra data: line 1 column 3 (char 2)", <<>>)
      [] s = " 21 , x,,44" -> Raise("JSONDecodeError", "Extra data: line 1 column 5 (char 4)", <<>>)

\* the strings the model splits, as their runs of characters: a comma, a blank, or a run
\* holding neither
Chars ==
    [s \in {"ID", "ID,TITLE", "ID, TITLE,,ID", "44,99", " 21 , x,,44"} |->
        CASE s = "ID" -> <<"ID">>
          [] s = "ID,TITLE" -> <<"ID", ",", "TITLE">>
          [] s = "ID, TITLE,,ID" -> <<"ID", ",", " ", "TITLE", ",", ",", "ID">>
          [] s = "44,99" -> <<"44", ",", "99">>
          [] s = " 21 , x,,44" -> <<" ", "21", " ", ",", " ", "x", ",", ",", "44">>]

\* the string a sequence of runs spells
RECURSIVE Join(_)
Join(q) == IF q = <<>> THEN "" ELSE Head(q) \o Join(Tail(q))

\* str.split(","), on the runs: cur is the item being read
RECURSIVE SplitAt(_, _)
SplitAt(q, cur) ==
    IF q = <<>> THEN <<cur>>
    ELSE IF Head(q) = "," THEN <<cur>> \o SplitAt(Tail(q), <<>>)
    ELSE SplitAt(Tail(q), Append(cur, Head(q)))

\* str.strip(), on the runs
RECURSIVE Strip(_)
Strip(q) ==
    IF q = <<>> THEN q
    ELSE IF Head(q) = " " THEN Strip(Tail(q))
    ELSE IF q[Len(q)] = " " THEN Strip(SubSeq(q, 1, Len(q) - 1))
    ELSE q

\* s.split(",")
SplitComma(s) ==
    LET items == SplitAt(Chars[s], <<>>)
    IN  L([i \in 1..Len(items) |-> S(Join(items[i]))])

\* k in v
PyIn(k, v) ==
    CASE v.t = "dict" -> Val(B(Has(v, k)), <<>>)
      [] v.t \in {"list", "tuple"} -> Val(B(\E i \in 1..Len(v.l) : v.l[i] = S(k)), <<>>)
      [] OTHER -> Raise("TypeError", "argument of type '" \o TypeName(v) \o "' is not iterable", <<>>)

\* v[k] = x, k a string
SetItem(v, k, x) ==
    CASE v.t = "dict" -> Val(DictSet(v, k, x), <<>>)
      [] v.t = "list" -> Raise("TypeError", "list indices must be integers or slices, not str", <<>>)
      [] OTHER -> Raise("TypeError",
                        "'" \o TypeName(v) \o "' object does not support item assignment", <<>>)

\* the decimal strings the model draws
Digits == [s \in {"5", "7", "8", "21", "44", "99"} |->
            CASE s = "5" -> 5 [] s = "7" -> 7 [] s = "8" -> 8
              [] s = "21" -> 21 [] s = "44" -> 44 [] s = "99" -> 99]

\* s.isdigit()
IsDigit(s) == s \in DOMAIN Digits

\* int(v)
IntOf(v) ==
    CASE v.t = "int" -> Val(v, <<>>)
      [] v.t = "bool" -> Val(I(IF v.b THEN 1 ELSE 0), <<>>)
      [] v.t = "str" ->
            IF IsDigit(v.s) THEN Val(I(Digits[v.s]), <<>>)
            ELSE Raise("ValueError", "invalid literal for int() with base 10: '" \o v.s \o "'", <<>>)
      [] OTHER -> Raise("TypeError",
                        "int() argument must be a string, a bytes-like object or a real number, not '"
                        \o TypeName(v) \o "'", <<>>)

\* str(v), for the scalars a section list holds
Str(v) ==
    CASE v.t = "int" -> ToString(v.i)
      [] v.t = "str" -> v.s
      [] v.t = "null" -> "None"
      [] v.t = "bool" -> IF v.b THEN "True" ELSE "False"

\* [item.strip() for item in s.split(",") if item.strip()]
SplitStripped(s) ==
    LET items == SplitAt(Chars[s], <<>>)
        stripped == [i \in 1..Len(items) |-> Join(Strip(items[i]))]
        NonEmpty(item) == item # ""
    IN  SelectSeq(stripped, NonEmpty)

\* Mutation of LoadsOr: a text that does not parse is taken as absent.
LoadsOrIgnore(x, default) ==
    IF Truthy(x) /\ ~JsonLoads(x.s).exc THEN JsonLoads(x.s) ELSE Val(default, <<>>)

\* json.loads(x) if x else <default>
LoadsOr(x, default) == IF Truthy(x) THEN JsonLoads(x.s) ELSE Val(default, <<>>)

\* x.split(",") if x else None
SplitOrNone(x) == IF Truthy(x) THEN SplitComma(x.s) ELSE None

(***************************************************************************)
(* json.dumps: the text is kept as the document it encodes and the         *)
(* ensure_ascii mode it was written with.  A coroutine object is not       *)
(* serializable.                                                           *)
(***************************************************************************)
RECURSIVE Serializable(_)
Serializable(v) ==
    CASE v.t = "coroutine" -> FALSE
      [] v.t \in {"list", "tuple"} -> \A i \in 1..Len(v.l) : Serializable(v.l[i])
      [] v.t = "dict" -> \A k \in DOMAIN v.d : Serializable(v.d[k])
      [] OTHER -> TRUE

Text(doc, ensure_ascii) == [t |-> "text", doc |-> doc, ensure_ascii |-> ensure_ascii]

Dumps(doc, ensure_ascii, calls) ==
    IF Serializable(doc)
    THEN Val(Text(doc, ensure_ascii), calls)
    ELSE Raise("TypeError", "Object of type coroutine is not JSON serializable", calls)

\* return json.dumps({"success": False, "error": str(e)})
FailureEnvelope(msg) == D([success |-> B(FALSE), error |-> S(msg)])

\* Mutation of ExceptException: the handler lets the exception through.
ExceptNothing(r) == r

\* try: <body> except Exception as e: return json.dumps({"success": False, "error": str(e)})
ExceptException(r) ==
    IF r.exc THEN Val(Text(FailureEnvelope(r.msg), TRUE), r.calls) ELSE r

(***************************************************************************)
(* The transport (fast_bitrix24.BitrixAsync), an external collaborator:    *)
(* for one invocation it either raises or returns stub.resp.               *)
(***************************************************************************)
Request(kind, method, params) == [kind |-> kind, method |-> method, params |-> params]

Rec(i) == D([ID |-> I(i)])
Records(n) == L([i \in 1..n |-> Rec(i)])
ResultId == D([result |-> I(123)])
TaskResult == D([result |-> D([task |-> D([id |-> I(7)])])])
FieldMap == D([TITLE |-> D([type |-> S("string")])])

Responses ==
    { Records(n) : n \in 0..MaxRecords }
    \cup { L(<<Records(n)>>) : n \in 0..MaxRecords }
    \cup { T(<<Records(MaxRecords)>>), T(<<>>), T(<<ResultId>>) }
    \cup { L(<<ResultId>>), L(<<TaskResult>>), L(<<I(123)>>), L(<<B(TRUE)>>), L(<<B(FALSE)>>),
           L(<<None>>), L(<<D(EmptyDict)>>), L(<<S("Y")>>), ResultId, D(EmptyDict), None }
    \cup { L(<<D([result |-> FieldMap])>>), L(<<FieldMap>>), D([result |-> FieldMap]), FieldMap,
           D([result |-> L(<<FieldMap>>)]) }

Stubs ==
    { [raises |-> TRUE, msg |-> "API error", resp |-> None] }
    \cup { [raises |-> FALSE, msg |-> "", resp |-> r] : r \in Responses }

NoStub == [raises |-> FALSE, msg |-> "", resp |-> None]

\* Mutation of Transport: a request that raised is issued once more.
TransportRetry(c, kind, method, params) ==
    IF c.stub.raises
    THEN Raise("Exception", c.stub.msg, <<Request(kind, method, params), Request(kind, method, params)>>)
    ELSE Val(c.stub.resp, <<Request(kind, method, params)>>)

\* await <transport>.call(method, params) / await <transport>.get_all(method, params)
Transport(c, kind, method, params) ==
    IF c.stub.raises
    THEN Raise("Exception", c.stub.msg, <<Request(kind, method, params)>>)
    ELSE Val(c.stub.resp, <<Request(kind, method, params)>>)

(***************************************************************************)
(* BitrixClient (client.py).  c = [connected, stub] is the client as an    *)
(* invocation sees it.                                                     *)
(***************************************************************************)
\* Mutation of BitrixClient_client: the property hands out the handle unconditionally.
ClientUnguarded(c) == Val(None, <<>>)

\* the client property
BitrixClient_client(c) ==
    IF ~c.connected
    THEN Raise("RuntimeError",
               "Client not connected. Use 'async with' or call connect() first.", <<>>)
    ELSE Val(None, <<>>)

\* await self.client.call(method, params): the property is read, then the request is made
ClientRequest(c, kind, method, params) ==
    IF BitrixClient_client(c).exc
    THEN BitrixClient_client(c)
    ELSE Transport(c, kind, method, params)

\* result = await self.client.call(...); return result[0] if result else <default>
FirstOrDefault(r, default) ==
    IF r.exc THEN r
    ELSE IF Truthy(r.v) THEN After(r.calls, Subscript0(r.v))
    ELSE Val(default, r.calls)

\* Mutation of FirstAsBool: success means only that no exception was raised.
NoExceptionAsBool(r) == IF r.exc THEN r ELSE Val(B(TRUE), r.calls)

\* result = await self.client.call(...); return bool(result[0]) if result else False
FirstAsBool(r) ==
    LET first == FirstOrDefault(r, B(FALSE))
    IN  IF first.exc THEN first ELSE Val(B(Truthy(first.v)), first.calls)

\* result[0] if result and isinstance(result[0], list) else []
FirstIfList(r) ==
    IF r.exc THEN r
    ELSE IF ~Truthy(r.v) THEN Val(L(<<>>), r.calls)
    ELSE LET first == Subscript0(r.v)
         IN  IF first.exc THEN After(r.calls, first)
             ELSE IF IsList(first.v) THEN Val(first.v, r.calls)
             ELSE Val(L(<<>>), r.calls)

\* beartype: the hints of the decorated client methods
IsJSONDict(v) == IsDict(v)
IsJSONList(v) == IsList(v) /\ \A i \in 1..Len(v.l) : IsDict(v.l[i])
ParamViolation(name) ==
    Raise("BeartypeCallHintParamViolation", "parameter " \o name \o " violates its type hint", <<>>)
CheckReturn(r, ok) ==
    IF r.exc \/ ok THEN r
    ELSE Raise("BeartypeCallHintReturnViolation", "return value violates its type hint", r.calls)

\* Mutation of ListParams: every key is sent, whatever its value.
ListParamsAllKeys(filter_params, select_fields, order) ==
    D([start |-> I(0), filter |-> filter_params, select |-> select_fields, order |-> order])

\* get_leads, get_deals, get_contacts, get_companies, get_tasks share one body
ListParams(filter_params, select_fields, order) ==
    LET p0 == [start |-> I(0)]
        p1 == IF Truthy(filter_params) THEN ("filter" :> filter_params) @@ p0 ELSE p0
        p2 == IF Truthy(select_fields) THEN ("select" :> select_fields) @@ p1 ELSE p1
        p3 == IF Truthy(order) THEN ("order" :> order) @@ p2 ELSE p2
    IN  D(p3)

ClientList(c, method, filter_params, select_fields, order) ==
    IF ~(IsNone(filter_params) \/ IsJSONDict(filter_params)) THEN ParamViolation("filter_params")
    ELSE IF ~(IsNone(order) \/ IsJSONDict(order)) THEN ParamViolation("order")
    ELSE LET r == ClientRequest(c, "get_all", method, ListParams(filter_params, select_fields, order))
         IN  CheckReturn(r, IsJSONList(r.v))

\* Mutation of ClientCreate: the fields are sent as the parameters themselves.
ClientCreateBare(c, method, fields) ==
    IF ~IsJSONDict(fields) THEN ParamViolation("fields")
    ELSE LET r == FirstOrDefault(ClientRequest(c, "call", method, fields), D(EmptyDict))
         IN  CheckReturn(r, IsJSONDict(r.v))

ClientCreate(c, method, fields) ==
    IF ~IsJSONDict(fields) THEN ParamViolation("fields")
    ELSE LET r == FirstOrDefault(ClientRequest(c, "call", method, D([fields |-> fields])),
                                 D(EmptyDict))
         IN  CheckReturn(r, IsJSONDict(r.v))

ClientUpdate(c, method, id, fields) ==
    IF ~IsJSONDict(fields) THEN ParamViolation("fields")
    ELSE FirstAsBool(ClientRequest(c, "call", method, D([id |-> id, fields |-> fields])))

ClientGet(c, method, id) ==
    LET r == FirstOrDefault(ClientRequest(c, "call", method, D([id |-> id])), None)
    IN  CheckReturn(r, IsNone(r.v) \/ IsJSONDict(r.v))

BitrixClient_get_task(c, task_id) ==
    LET r == FirstOrDefault(ClientRequest(c, "call", "tasks.task.get", D([taskId |-> task_id])),
                            None)
    IN  CheckReturn(r, IsNone(r.v) \/ IsJSONDict(r.v))

BitrixClient_get_calendar_event_by_id(c, event_id) ==
    ClientGet(c, "calendar.event.getbyid", event_id)

BitrixClient_get_nearest_calendar_events(c, calendar_type, owner_id, days, for_current_user, max_events_count, detail_url) ==
    LET p0 == EmptyDict
        p1 == IF Truthy(calendar_type) THEN ("type" :> calendar_type) @@ p0 ELSE p0
        p2 == IF ~IsNone(owner_id) THEN ("ownerId" :> owner_id) @@ p1 ELSE p1
        p3 == IF days # I(DefaultDays) THEN ("days" :> days) @@ p2 ELSE p2
        p4 == IF ~Truthy(for_current_user) THEN ("forCurrentUser" :> for_current_user) @@ p3 ELSE p3
        p5 == IF Truthy(max_events_count) THEN ("maxEventsCount" :> max_events_count) @@ p4 ELSE p4
        p6 == IF Truthy(detail_url) THEN ("detailUrl" :> detail_url) @@ p5 ELSE p5
        r == FirstIfList(ClientRequest(c, "call", "calendar.event.get.nearest", D(p6)))
    IN  CheckReturn(r, IsJSONList(r.v))

BitrixClient_get_meeting_status(c, event_id) ==
    LET r == FirstOrDefault(
                ClientRequest(c, "call", "calendar.meeting.status.get", D([eventId |-> event_id])),
                None)
    IN  CheckReturn(r, IsNone(r.v) \/ r.v.t = "str")

BitrixClient_set_meeting_status(c, event_id, status) ==
    FirstAsBool(ClientRequest(c, "call", "calendar.meeting.status.set",
                              D([eventId |-> event_id, status |-> status])))

BitrixClient_expel_project_member(c, project_id, user_id) ==
    FirstAsBool(ClientRequest(c, "call", "sonet_group.user.expel",
                              D([GROUP_ID |-> project_id, USER_ID |-> user_id])))

BitrixClient_request_join_project(c, project_id, message) ==
    LET p0 == [GROUP_ID |-> project_id]
        p1 == IF Truthy(message) THEN ("MESSAGE" :> message) @@ p0 ELSE p0
    IN  FirstAsBool(ClientRequest(c, "call", "sonet_group.user.request", D(p1)))

BitrixClient_invite_project_member(c, project_id, user_id, message) ==
    LET p0 == [GROUP_ID |-> project_id, USER_ID |-> user_id]
        p1 == IF Truthy(message) THEN ("MESSAGE" :> message) @@ p0 ELSE p0
    IN  FirstAsBool(ClientRequest(c, "call", "sonet_group.user.invite", D(p1)))

(***************************************************************************)
(* The envelopes the tool operations build (tools/*.py).                   *)
(***************************************************************************)
\* Mutation of ListEnvelope: a limit of 0 truncates as well (limit >= 0).
ListEnvelopeFromZero(r, limit, key) ==
    IF r.exc THEN r
    ELSE LET cut == IF limit.i >= 0 THEN Slice(r.v, limit.i) ELSE Val(r.v, <<>>)
         IN  IF cut.exc THEN After(r.calls, cut)
             ELSE LET n == PyLen(cut.v)
                  IN  IF n.exc THEN After(r.calls, n)
                      ELSE Dumps(D(("success" :> B(TRUE)) @@ ("count" :> n.v) @@ (key :> cut.v)),
                                 FALSE, r.calls)

\* if limit > 0: xs = xs[:limit]
\* json.dumps({"success": True, "count": len(xs), key: xs}, ensure_ascii=False, indent=2)
ListEnvelope(r, limit, key) ==
    IF r.exc THEN r
    ELSE LET cut == IF limit.i > 0 THEN Slice(r.v, limit.i) ELSE Val(r.v, <<>>)
         IN  IF cut.exc THEN After(r.calls, cut)
             ELSE LET n == PyLen(cut.v)
                  IN  IF n.exc THEN After(r.calls, n)
                      ELSE Dumps(D(("success" :> B(TRUE)) @@ ("count" :> n.v) @@ (key :> cut.v)),
                                 FALSE, r.calls)

\* json.dumps({"success": True, key: result.get("result"), "message": message})
CreatedEnvelope(r, key, message) ==
    IF r.exc THEN r
    ELSE LET id == DictGet(r.v, "result", None)
         IN  IF id.exc THEN After(r.calls, id)
             ELSE Dumps(D(("success" :> B(TRUE)) @@ (key :> id.v) @@ ("message" :> S(message))),
                        TRUE, r.calls)

\* json.dumps({"success": success, key: id, "message": done if success else failed})
OutcomeEnvelope(r, echo, done, failed) ==
    IF r.exc THEN r
    ELSE Dumps(D(("success" :> r.v) @@ echo
                 @@ ("message" :> S(IF Truthy(r.v) THEN done ELSE failed))),
               TRUE, r.calls)

\* if x: json.dumps({"success": True, key: x}, ensure_ascii=False, indent=2)
\* else: json.dumps({"success": False, "error": f"<Entity> with ID {id} not found"})
GetOneEnvelope(r, key, entity, id) ==
    IF r.exc THEN r
    ELSE IF Truthy(r.v)
         THEN Dumps(D(("success" :> B(TRUE)) @@ (key :> r.v)), FALSE, r.calls)
         ELSE Dumps(FailureEnvelope(entity \o " with ID " \o id.s \o " not found"), TRUE, r.calls)

\* get_*_fields of leads.py: the nested shape of a metadata response is unwrapped
LeadFieldsPayload(raw_fields) ==
    IF IsList(raw_fields)
    THEN (IF Truthy(raw_fields) THEN raw_fields.l[1] ELSE D(EmptyDict))
    ELSE (IF Truthy(raw_fields) THEN raw_fields ELSE D(EmptyDict))

\* get_*_fields of deals.py, contacts.py, companies.py
FieldsPayload(raw_fields) ==
    IF IsList(raw_fields) /\ Truthy(raw_fields)
    THEN raw_fields.l[1]
    ELSE (IF Truthy(raw_fields) THEN raw_fields ELSE D(EmptyDict))

FieldsEnvelope(r, payload) ==
    IF r.exc THEN r
    ELSE LET fields == IF IsDict(payload) THEN DictGet(payload, "result", payload).v ELSE payload
         IN  Dumps(D([success |-> B(TRUE), fields |-> fields]), FALSE, r.calls)

(***************************************************************************)
(* LeadTools (tools/leads.py)                                              *)
(***************************************************************************)
LeadTools_get_leads(c, filter_params, select_fields, limit) ==
    ExceptException(
        LET f == LoadsOr(filter_params, None)
        IN  IF f.exc THEN f
            ELSE ListEnvelope(ClientList(c, "crm.lead.list", f.v, SplitOrNone(select_fields), None),
                              limit, "leads"))

LeadTools_create_lead(c, fields) ==
    ExceptException(
        LET f == JsonLoads(fields.s)
        IN  IF f.exc THEN f
            ELSE CreatedEnvelope(ClientCreate(c, "crm.lead.add", f.v),
                                 "lead_id", "Lead created successfully"))

LeadTools_update_lead(c, lead_id, fields) ==
    ExceptException(
        LET f == JsonLoads(fields.s)
        IN  IF f.exc THEN f
            ELSE OutcomeEnvelope(ClientUpdate(c, "crm.lead.update", lead_id, f.v),
                                 [lead_id |-> lead_id],
                                 "Lead updated successfully", "Failed to update lead"))

LeadTools_get_lead(c, lead_id) ==
    ExceptException(GetOneEnvelope(ClientGet(c, "crm.lead.get", lead_id), "lead", "Lead", lead_id))

LeadTools_get_lead_fields(c) ==
    ExceptException(
        LET r == ClientRequest(c, "call", "crm.lead.fields", NoParams)
        IN  FieldsEnvelope(r, LeadFieldsPayload(r.v)))

(***************************************************************************)
(* DealTools (tools/deals.py)                                              *)
(***************************************************************************)
DealTools_get_deals(c, filter_params, select_fields, limit) ==
    ExceptException(
        LET f == LoadsOr(filter_params, None)
        IN  IF f.exc THEN f
            ELSE ListEnvelope(ClientList(c, "crm.deal.list", f.v, SplitOrNone(select_fields), None),
                              limit, "deals"))

DealTools_create_deal(c, fields) ==
    ExceptException(
        LET f == JsonLoads(fields.s)
        IN  IF f.exc THEN f
            ELSE CreatedEnvelope(ClientCreate(c, "crm.deal.add", f.v),
                                 "deal_id", "Deal created successfully"))

DealTools_update_deal(c, deal_id, fields) ==
    ExceptException(
        LET f == JsonLoads(fields.s)
        IN  IF f.exc THEN f
            ELSE OutcomeEnvelope(ClientUpdate(c, "crm.deal.update", deal_id, f.v),
                                 [deal_id |-> deal_id],
                                 "Deal updated successfully", "Failed to update deal"))

DealTools_get_deal(c, deal_id) ==
    ExceptException(GetOneEnvelope(ClientGet(c, "crm.deal.get", deal_id), "deal", "Deal", deal_id))

DealTools_get_deal_fields(c) ==
    ExceptException(
        LET r == ClientRequest(c, "call", "crm.deal.fields", NoParams)
        IN  FieldsEnvelope(r, FieldsPayload(r.v)))

(***************************************************************************)
(* ContactTools (tools/contacts.py)                                        *)
(***************************************************************************)
ContactTools_get_contacts(c, filter_params, select_fields, order, limit) ==
    ExceptException(
        LET f == LoadsOr(filter_params, None)
            o == LoadsOr(order, None)
        IN  IF f.exc THEN f
            ELSE IF o.exc THEN o
            ELSE ListEnvelope(ClientList(c, "crm.contact.list", f.v, SplitOrNone(select_fields), o.v),
                              limit, "contacts"))

ContactTools_create_contact(c, fields) ==
    ExceptException(
        LET f == JsonLoads(fields.s)
        IN  IF f.exc THEN f
            ELSE CreatedEnvelope(ClientCreate(c, "crm.contact.add", f.v),
                                 "contact_id", "Contact created successfully"))

ContactTools_update_contact(c, contact_id, fields) ==
    ExceptException(
        LET f == JsonLoads(fields.s)
        IN  IF f.exc THEN f
            ELSE OutcomeEnvelope(ClientUpdate(c, "crm.contact.update", contact_id, f.v),
                                 [contact_id |-> contact_id],
                                 "Contact updated successfully", "Failed to update contact"))

ContactTools_get_contact(c, contact_id) ==
    ExceptException(GetOneEnvelope(ClientGet(c, "crm.contact.get", contact_id),
                                   "contact", "Contact", contact_id))

ContactTools_get_contact_fields(c) ==
    ExceptException(
        LET r == ClientRequest(c, "call", "crm.contact.fields", NoParams)
        IN  FieldsEnvelope(r, FieldsPayload(r.v)))

(***************************************************************************)
(* CompanyTools (tools/companies.py)                                       *)
(***************************************************************************)
CompanyTools_get_companies(c, filter_params, select_fields, limit) ==
    ExceptException(
        LET f == LoadsOr(filter_params, None)
        IN  IF f.exc THEN f
            ELSE ListEnvelope(ClientList(c, "crm.company.list", f.v, SplitOrNone(select_fields), None),
                              limit, "companies"))

CompanyTools_create_company(c, fields) ==
    ExceptException(
        LET f == JsonLoads(fields.s)
        IN  IF f.exc THEN f
            ELSE CreatedEnvelope(ClientCreate(c, "crm.company.add", f.v),
                                 "company_id", "Company created successfully"))

CompanyTools_update_company(c, company_id, fields) ==
    ExceptException(
        LET f == JsonLoads(fields.s)
        IN  IF f.exc THEN f
            ELSE OutcomeEnvelope(ClientUpdate(c, "crm.company.update", company_id, f.v),
                                 [company_id |-> company_id],
                                 "Company updated successfully", "Failed to update company"))

CompanyTools_get_company(c, company_id) ==
    ExceptException(GetOneEnvelope(ClientGet(c, "crm.company.get", company_id),
                                   "company", "Company", company_id))

CompanyTools_get_company_fields(c) ==
    ExceptException(
        LET r == ClientRequest(c, "call", "crm.company.fields", NoParams)
        IN  FieldsEnvelope(r, FieldsPayload(r.v)))

(***************************************************************************)
(* TaskTools (tools/tasks.py)                                              *)
(***************************************************************************)
\* an async function called without await: the value is a coroutine object and the
\* body (r, never evaluated) does not run
WithoutAwait(r) == Val(Coroutine, <<>>)

\* self.client.client.call(method, params) without await: the property is read and a
\* coroutine object is made; it is never awaited, so no request is issued
CallWithoutAwait(c, method, params) ==
    IF BitrixClient_client(c).exc
    THEN BitrixClient_client(c)
    ELSE WithoutAwait(Transport(c, "call", method, params))

TaskTools_get_tasks(c, filter_params, select_fields, limit) ==
    ExceptException(
        LET f == LoadsOr(filter_params, None)
        IN  IF f.exc THEN f
            ELSE ListEnvelope(ClientList(c, "tasks.task.list", f.v, SplitOrNone(select_fields), None),
                              limit, "tasks"))

\* result[0].get("result", {}).get("task", {}).get("id") if result else None
CreatedTaskId(r) ==
    IF r.exc THEN r
    ELSE IF ~Truthy(r.v) THEN Val(None, r.calls)
    ELSE LET first == Subscript0(r.v)
             res == DictGet(first.v, "result", D(EmptyDict))
             task == DictGet(res.v, "task", D(EmptyDict))
             id == DictGet(task.v, "id", None)
         IN  IF first.exc THEN After(r.calls, first)
             ELSE IF res.exc THEN After(r.calls, res)
             ELSE IF task.exc THEN After(r.calls, task)
             ELSE After(r.calls, id)

TaskTools_create_task(c, fields) ==
    ExceptException(
        LET f == JsonLoads(fields.s)
            id == CreatedTaskId(ClientRequest(c, "call", "tasks.task.add", D([fields |-> f.v])))
        IN  IF f.exc THEN f
            ELSE IF id.exc THEN id
            ELSE Dumps(D([success |-> B(TRUE), task_id |-> id.v,
                          message |-> S("Task created successfully")]), TRUE, id.calls))

TaskTools_update_task(c, task_id, fields) ==
    ExceptException(
        LET f == JsonLoads(fields.s)
        IN  IF f.exc THEN f
            ELSE OutcomeEnvelope(
                    FirstAsBool(ClientRequest(c, "call", "tasks.task.update",
                                              D([taskId |-> task_id, fields |-> f.v]))),
                    [task_id |-> task_id],
                    "Task updated successfully", "Failed to update task"))

TaskTools_complete_task(c, task_id) ==
    ExceptException(
        OutcomeEnvelope(
            FirstAsBool(ClientRequest(c, "call", "tasks.task.complete", D([taskId |-> task_id]))),
            [task_id |-> task_id],
            "Task completed successfully", "Failed to complete task"))

TaskTools_get_task(c, task_id) ==
    ExceptException(GetOneEnvelope(WithoutAwait(BitrixClient_get_task(c, task_id)),
                                   "task", "Task", task_id))

TaskTools_approve_task(c, task_id) ==
    ExceptException(
        OutcomeEnvelope(
            FirstAsBool(CallWithoutAwait(c, "tasks.task.approve", D([taskId |-> task_id]))),
            [task_id |-> task_id],
            "Task approved successfully", "Failed to approve task"))

TaskTools_start_task(c, task_id) ==
    ExceptException(
        OutcomeEnvelope(
            FirstAsBool(CallWithoutAwait(c, "tasks.task.start", D([taskId |-> task_id]))),
            [task_id |-> task_id],
            "Task started successfully", "Failed to start task"))

TaskTools_delegate_task(c, task_id, user_id) ==
    ExceptException(
        OutcomeEnvelope(
            FirstAsBool(CallWithoutAwait(c, "tasks.task.delegate",
                                         D([taskId |-> task_id, userId |-> user_id]))),
            [task_id |-> task_id, user_id |-> user_id],
            "Task delegated successfully", "Failed to delegate task"))

TaskTools_renew_task(c, task_id) ==
    ExceptException(
        OutcomeEnvelope(
            FirstAsBool(CallWithoutAwait(c, "tasks.task.renew", D([taskId |-> task_id]))),
            [task_id |-> task_id],
            "Task renewed successfully", "Failed to renew task"))

TaskTools_start_watching_task(c, task_id) ==
    ExceptException(
        OutcomeEnvelope(
            FirstAsBool(CallWithoutAwait(c, "tasks.task.startwatch", D([taskId |-> task_id]))),
            [task_id |-> task_id],
            "Started watching task successfully", "Failed to start watching task"))

TaskTools_disapprove_task(c, task_id) ==
    ExceptException(
        OutcomeEnvelope(
            FirstAsBool(CallWithoutAwait(c, "tasks.task.disapprove", D([taskId |-> task_id]))),
            [task_id |-> task_id],
            "Task disapproved successfully", "Failed to disapprove task"))

(***************************************************************************)
(* CalendarTools (tools/calendar.py)                                       *)
(***************************************************************************)
\* _normalize_sections of get_events: the list of section values of raw_value
CalendarTools_normalize_sections(raw_value) ==
    CASE raw_value.t = "null" -> <<>>
      [] raw_value.t = "list" -> raw_value.l
      [] raw_value.t \in {"int", "bool"} -> <<IntOf(raw_value).v>>
      [] raw_value.t = "str" ->
            LET parsed == JsonLoads(raw_value.s)
                items == SplitStripped(raw_value.s)
            IN  IF ~parsed.exc
                THEN (IF IsList(parsed.v) THEN parsed.v.l ELSE <<parsed.v>>)
                ELSE [i \in 1..Len(items) |->
                        IF IsDigit(items[i]) THEN I(Digits[items[i]]) ELSE S(items[i])]
      [] OTHER -> <<>>

\* Mutation of DedupByStr: only an element equal in value and type is a duplicate.
RECURSIVE DedupByValue(_, _)
DedupByValue(section_values, normalized_sections) ==
    IF section_values = <<>> THEN normalized_sections
    ELSE LET section == Head(section_values)
             seen == \E j \in 1..Len(normalized_sections) : normalized_sections[j] = section
         IN  DedupByValue(Tail(section_values),
                          IF seen THEN normalized_sections
                          ELSE Append(normalized_sections, section))

\* the loop of get_events that keeps the first element of every str() value
RECURSIVE DedupByStr(_, _)
DedupByStr(section_values, normalized_sections) ==
    IF section_values = <<>> THEN normalized_sections
    ELSE LET section == Head(section_values)
             seen == \E j \in 1..Len(normalized_sections) :
                        Str(normalized_sections[j]) = Str(section)
         IN  DedupByStr(Tail(section_values),
                        IF seen THEN normalized_sections
                        ELSE Append(normalized_sections, section))

\* v[k], k a string
GetItem(v, k) ==
    CASE v.t = "dict" -> (IF Has(v, k) THEN Val(v.d[k], <<>>) ELSE Raise("KeyError", "'" \o k \o "'", <<>>))
      [] v.t = "list" -> Raise("TypeError", "list indices must be integers or slices, not str", <<>>)
      [] OTHER -> Raise("TypeError", "'" \o TypeName(v) \o "' object is not subscriptable", <<>>)

\* the parameters get_events sends: section values merged, dates added
EventParams(filter_dict, date_from, date_to, sections) ==
    LET has == PyIn("section", filter_dict)
        own == IF has.v.b THEN GetItem(filter_dict, "section") ELSE Val(None, <<>>)
        section_values ==
            (IF has.v.b THEN CalendarTools_normalize_sections(own.v) ELSE <<>>)
            \o (IF Truthy(sections) THEN CalendarTools_normalize_sections(sections) ELSE <<>>)
        p1 == IF section_values # <<>>
              THEN SetItem(filter_dict, "section", L(DedupByStr(section_values, <<>>)))
              ELSE IF has.v.b THEN Val(DictPop(filter_dict, "section"), <<>>)
              ELSE Val(filter_dict, <<>>)
        p2 == IF Truthy(date_from) THEN SetItem(p1.v, "from", date_from) ELSE p1
        p3 == IF Truthy(date_to) THEN SetItem(p2.v, "to", date_to) ELSE p2
    IN  IF has.exc THEN has
        ELSE IF own.exc THEN own
        ELSE IF p1.exc THEN p1
        ELSE IF p2.exc THEN p2
        ELSE p3

\* the limit, count and events of get_events
EventsEnvelope(r, limit) ==
    IF r.exc THEN r
    ELSE IF ~Truthy(r.v)
    THEN Dumps(D([success |-> B(TRUE), count |-> I(0), events |-> L(<<>>)]), FALSE, r.calls)
    ELSE LET first == Subscript0(r.v)
             cut == IF limit.i > 0 THEN Slice(first.v, limit.i).v ELSE first.v
         IN  IF first.exc THEN After(r.calls, first)
             ELSE IF ~IsList(first.v)
             THEN Dumps(D([success |-> B(TRUE), count |-> I(0), events |-> first.v]),
                        FALSE, r.calls)
             ELSE IF limit.i > 0 /\ r.v.t = "tuple"
             THEN Raise("TypeError", "'tuple' object does not support item assignment", r.calls)
             ELSE Dumps(D([success |-> B(TRUE), count |-> I(Len(cut.l)), events |-> cut]),
                        FALSE, r.calls)

CalendarTools_get_events(c, filter_params, date_from, date_to, limit, sections) ==
    ExceptException(
        LET f == LoadsOr(filter_params, D(EmptyDict))
            p == EventParams(f.v, date_from, date_to, sections)
        IN  IF f.exc THEN f
            ELSE IF p.exc THEN p
            ELSE EventsEnvelope(ClientRequest(c, "call", "calendar.event.get", p.v), limit))

\* json.dumps({"success": True, key: result[0] if result else None, "message": message})
CreatedFirstEnvelope(r, key, message) ==
    LET first == FirstOrDefault(r, None)
    IN  IF first.exc THEN first
        ELSE Dumps(D(("success" :> B(TRUE)) @@ (key :> first.v) @@ ("message" :> S(message))),
                   TRUE, first.calls)

CalendarTools_create_event(c, fields) ==
    ExceptException(
        LET f == JsonLoads(fields.s)
        IN  IF f.exc THEN f
            ELSE CreatedFirstEnvelope(ClientRequest(c, "call", "calendar.event.add", f.v),
                                      "event_id", "Calendar event created successfully"))

CalendarTools_update_event(c, event_id, fields) ==
    ExceptException(
        LET f == JsonLoads(fields.s)
            p == SetItem(f.v, "id", event_id)
        IN  IF f.exc THEN f
            ELSE IF p.exc THEN p
            ELSE OutcomeEnvelope(
                    FirstAsBool(ClientRequest(c, "call", "calendar.event.update", p.v)),
                    [event_id |-> event_id],
                    "Calendar event updated successfully", "Failed to update event"))

CalendarTools_delete_event(c, event_id) ==
    ExceptException(
        OutcomeEnvelope(
            FirstAsBool(ClientRequest(c, "call", "calendar.event.delete", D([id |-> event_id]))),
            [event_id |-> event_id],
            "Calendar event deleted successfully", "Failed to delete event"))

\* Mutation of CalendarListParams: a legacy key overwrites the canonical key.
CalendarListParamsOverwrite(params) ==
    LET p1 == IF Has(params, "TYPE")
              THEN DictSet(DictPop(params, "TYPE"), "type", params.d["TYPE"])
              ELSE params
        p2 == IF Has(p1, "OWNER_ID")
              THEN DictSet(DictPop(p1, "OWNER_ID"), "ownerId", p1.d["OWNER_ID"])
              ELSE IF Has(p1, "owner_id")
              THEN DictSet(DictPop(p1, "owner_id"), "ownerId", p1.d["owner_id"])
              ELSE p1
        p3 == IF ~Has(p2, "type") THEN DictSet(p2, "type", S("user")) ELSE p2
        owner == IntOf(p3.d["ownerId"])
        p4 == IF Has(p3, "ownerId") /\ ~owner.exc THEN DictSet(p3, "ownerId", owner.v) ELSE p3
    IN  IF ~IsDict(params) THEN SetItem(params, "type", S("user"))
        ELSE Val(p4, <<>>)

\* the alias, default and coercion steps of get_calendar_list on the parsed params
CalendarListParams(params) ==
    LET probe == PyIn("TYPE", params)
        p1 == IF Has(params, "TYPE") /\ ~Has(params, "type")
              THEN DictSet(DictPop(params, "TYPE"), "type", params.d["TYPE"])
              ELSE params
        p2 == IF Has(p1, "OWNER_ID") /\ ~Has(p1, "ownerId")
              THEN DictSet(DictPop(p1, "OWNER_ID"), "ownerId", p1.d["OWNER_ID"])
              ELSE IF Has(p1, "owner_id") /\ ~Has(p1, "ownerId")
              THEN DictSet(DictPop(p1, "owner_id"), "ownerId", p1.d["owner_id"])
              ELSE p1
        p3 == IF ~Has(p2, "type") THEN DictSet(p2, "type", S("user")) ELSE p2
        owner == IntOf(p3.d["ownerId"])
        p4 == IF Has(p3, "ownerId") /\ ~owner.exc THEN DictSet(p3, "ownerId", owner.v) ELSE p3
    IN  IF probe.exc THEN probe
        ELSE IF ~IsDict(params) THEN SetItem(params, "type", S("user"))
        ELSE Val(p4, <<>>)

\* except json.JSONDecodeError as exc: ... f"Invalid filter_params JSON: {exc}"
\* except Exception as e: ... str(e)
ExceptJSONDecodeError(r) ==
    IF r.exc /\ r.type = "JSONDecodeError"
    THEN Val(Text(FailureEnvelope("Invalid filter_params JSON: " \o r.msg), TRUE), r.calls)
    ELSE ExceptException(r)

CalendarTools_get_calendar_list(c, filter_params) ==
    ExceptJSONDecodeError(
        LET f == LoadsOr(filter_params, D(EmptyDict))
            p == CalendarListParams(f.v)
            calendars == FirstOrDefault(ClientRequest(c, "call", "calendar.section.get", p.v),
                                        L(<<>>))
        IN  IF f.exc THEN f
            ELSE IF p.exc THEN p
            ELSE IF calendars.exc THEN calendars
            ELSE Dumps(D([success |-> B(TRUE), calendars |-> calendars.v]),
                       FALSE, calendars.calls))

CalendarTools_get_event_by_id(c, event_id) ==
    ExceptException(GetOneEnvelope(BitrixClient_get_calendar_event_by_id(c, event_id),
                                   "event", "Event", event_id))

CalendarTools_get_nearest_events(c, calendar_type, owner_id, days, for_current_user, max_events_count, detail_url) ==
    ExceptException(
        LET owner_id_int == IF Truthy(owner_id) THEN IntOf(owner_id) ELSE Val(None, <<>>)
        IN  IF owner_id_int.exc THEN owner_id_int
            ELSE ListEnvelope(
                    BitrixClient_get_nearest_calendar_events(c, calendar_type, owner_id_int.v,
                        days, for_current_user, max_events_count, detail_url),
                    I(0), "events"))

CalendarTools_get_meeting_status(c, event_id) ==
    ExceptException(
        LET status == BitrixClient_get_meeting_status(c, event_id)
        IN  IF status.exc THEN status
            ELSE IF ~IsNone(status.v)
            THEN Dumps(D([success |-> B(TRUE), event_id |-> event_id, status |-> status.v]),
                       TRUE, status.calls)
            ELSE Dumps(FailureEnvelope("Could not get meeting status for event " \o event_id.s),
                       TRUE, status.calls))

\* Mutation of CalendarTools_set_meeting_status: the status is sent without validation.
SetMeetingStatusUnchecked(c, event_id, status) ==
    ExceptException(
        OutcomeEnvelope(BitrixClient_set_meeting_status(c, event_id, status),
                        [event_id |-> event_id, status |-> status],
                        "Meeting status updated successfully",
                        "Failed to update meeting status"))

CalendarTools_set_meeting_status(c, event_id, status) ==
    ExceptException(
        IF status.s \notin {"Y", "N", "Q"}
        THEN Dumps(FailureEnvelope("Invalid status '" \o status.s \o "'. Must be 'Y', 'N', or 'Q'"),
                   TRUE, <<>>)
        ELSE OutcomeEnvelope(BitrixClient_set_meeting_status(c, event_id, status),
                             [event_id |-> event_id, status |-> status],
                             "Meeting status updated successfully",
                             "Failed to update meeting status"))

(***************************************************************************)
(* ProjectTools (tools/projects.py)                                        *)
(***************************************************************************)
\* if limit > 0 and xs: xs = xs[:limit]
\* the count is len(xs) if xs else 0 and the list is xs if xs else []
ProjectListing(r, limit) ==
    IF r.exc THEN r
    ELSE IF ~Truthy(r.v) THEN Val([n |-> I(0), xs |-> L(<<>>)], r.calls)
    ELSE LET cut == IF limit.i > 0 THEN Slice(r.v, limit.i) ELSE Val(r.v, <<>>)
             n == PyLen(cut.v)
         IN  IF cut.exc THEN After(r.calls, cut)
             ELSE IF n.exc THEN After(r.calls, n)
             ELSE Val([n |-> n.v, xs |-> cut.v], r.calls)

ProjectTools_get_projects(c, filter_params, limit) ==
    ExceptException(
        LET f == LoadsOr(filter_params, D(EmptyDict))
            params == IF Truthy(f.v) THEN D([FILTER |-> f.v]) ELSE D(EmptyDict)
            projects == ProjectListing(ClientRequest(c, "get_all", "sonet_group.get", params),
                                       limit)
        IN  IF f.exc THEN f
            ELSE IF projects.exc THEN projects
            ELSE Dumps(D([success |-> B(TRUE), total |-> projects.v.n, count |-> projects.v.n,
                          projects |-> projects.v.xs]), FALSE, projects.calls))

ProjectTools_create_project(c, fields) ==
    ExceptException(
        LET f == JsonLoads(fields.s)
        IN  IF f.exc THEN f
            ELSE CreatedFirstEnvelope(ClientRequest(c, "call", "sonet_group.create", f.v),
                                      "project_id", "Project created successfully"))

\* {"GROUP_ID": project_id, **fields_dict}
GroupParams(project_id, fields_dict) ==
    IF IsDict(fields_dict)
    THEN Val(D(fields_dict.d @@ [GROUP_ID |-> project_id]), <<>>)
    ELSE Raise("TypeError", "'" \o TypeName(fields_dict) \o "' object is not a mapping", <<>>)

ProjectTools_update_project(c, project_id, fields) ==
    ExceptException(
        LET f == JsonLoads(fields.s)
            p == GroupParams(project_id, f.v)
        IN  IF f.exc THEN f
            ELSE IF p.exc THEN p
            ELSE OutcomeEnvelope(
                    FirstAsBool(ClientRequest(c, "call", "sonet_group.update", p.v)),
                    [project_id |-> project_id],
                    "Project updated successfully", "Failed to update project"))

ProjectTools_get_project_tasks(c, project_id, limit) ==
    ExceptException(
        LET tasks_list == ProjectListing(
                ClientRequest(c, "get_all", "tasks.task.list",
                              D([filter |-> D([GROUP_ID |-> project_id])])),
                limit)
        IN  IF tasks_list.exc THEN tasks_list
            ELSE Dumps(D([success |-> B(TRUE), project_id |-> project_id,
                          count |-> tasks_list.v.n, tasks |-> tasks_list.v.xs]),
                       FALSE, tasks_list.calls))

ProjectTools_add_project_member(c, project_id, user_id, role) ==
    ExceptException(
        OutcomeEnvelope(
            FirstAsBool(ClientRequest(c, "call", "sonet_group.user.add",
                            D([GROUP_ID |-> project_id, USER_ID |-> user_id, ROLE |-> role]))),
            [project_id |-> project_id, user_id |-> user_id, role |-> role],
            "Member added successfully", "Failed to add member"))

ProjectTools_get_project_members(c, project_id) ==
    ExceptException(
        LET members_list == ProjectListing(
                ClientRequest(c, "get_all", "sonet_group.user.get", D([ID |-> project_id])),
                I(0))
        IN  IF members_list.exc THEN members_list
            ELSE Dumps(D([success |-> B(TRUE), project_id |-> project_id,
                          count |-> members_list.v.n, members |-> members_list.v.xs]),
                       FALSE, members_list.calls))

ProjectTools_expel_project_member(c, project_id, user_id) ==
    ExceptException(
        OutcomeEnvelope(BitrixClient_expel_project_member(c, project_id, user_id),
                        [project_id |-> project_id, user_id |-> user_id],
                        "Member expelled successfully", "Failed to expel member"))

ProjectTools_request_join_project(c, project_id, message) ==
    ExceptException(
        OutcomeEnvelope(BitrixClient_request_join_project(c, project_id, message),
                        [project_id |-> project_id, request_message |-> message],
                        "Join request sent successfully", "Failed to send join request"))

ProjectTools_invite_project_member(c, project_id, user_id, message) ==
    ExceptException(
        OutcomeEnvelope(BitrixClient_invite_project_member(c, project_id, user_id, message),
                        [project_id |-> project_id, user_id |-> user_id,
                         invitation_message |-> message],
                        "Invitation sent successfully", "Failed to send invitation"))

(***************************************************************************)
(* The arguments an invocation draws.                                      *)
(***************************************************************************)
FilterArgs ==
    {None, S(""), S("{bad}"), S(" "), S("{}"), S("{\"STATUS_ID\": \"NEW\"}"), S("[1]")}
SelectArgs == {None, S("ID,TITLE"), S("ID, TITLE,,ID")}
OrderArgs == {None, S("{bad}"), S("{\"DATE_CREATE\": \"DESC\"}")}
Limits == {I(-1), I(0), I(2), I(DefaultLimit)}
FieldsArgs ==
    {S(""), S("{bad}"), S("{}"), S("{\"TITLE\": \"ACME\"}"),
     S("{\"id\": \"999\", \"GROUP_ID\": \"999\", \"TITLE\": \"ACME\"}"), S("[1]"), S("null")}
Ids == {S("123"), S("7")}
EventFilterArgs ==
    {None, S("{bad}"), S("{\"STATUS_ID\": \"NEW\"}"), S("{\"section\": [21, 44]}"),
     S("{\"section\": null}"), S("[1]")}
SectionArgs == {None, S(""), S("44,99"), S("[21, 44]"), S("[\"44\", 99]"), S(" 21 , x,,44")}
CalendarArgs ==
    {None, S("{bad}"), S("{}"), S("{\"TYPE\": \"group\", \"OWNER_ID\": \"7\", \"owner_id\": \"8\"}"),
     S("{\"type\": \"user\", \"ownerId\": \"x\"}"), S("{\"owner_id\": \"8\"}"),
     S("{\"TYPE\": \"group\", \"type\": \"location\", \"OWNER_ID\": \"7\", \"ownerId\": \"5\"}"),
     S("null")}
Messages == {None, S(""), S("hello")}

(***************************************************************************)
(* The state machine.                                                      *)
(***************************************************************************)
NoCall == [layer |-> "none", group |-> "", op |-> "", reqctx |-> FALSE, args |-> [none |-> None]]

Init ==
    /\ connected = FALSE
    /\ lifespan = "down"
    /\ app_context = FALSE
    /\ pc = "idle"
    /\ call = NoCall
    /\ stub = NoStub
    /\ out = Val(None, <<>>)

\* the client as the invocation sees it
Client(st) == [connected |-> connected, stub |-> st]

\* Mutation of Invoke: an invocation whose transport raises drops the connection handle.
InvokeDropsHandle(layer, group, op, reqctx, args, st, r) ==
    /\ pc = "idle"
    /\ pc' = "returned"
    /\ call' = [layer |-> layer, group |-> group, op |-> op, reqctx |-> reqctx, args |-> args]
    /\ stub' = st
    /\ out' = r
    /\ connected' = (connected /\ ~st.raises)
    /\ UNCHANGED <<lifespan, app_context>>

\* one invocation, from the call to its return: r is what the handler evaluates to
Invoke(layer, group, op, reqctx, args, st, r) ==
    /\ pc = "idle"
    /\ pc' = "returned"
    /\ call' = [layer |-> layer, group |-> group, op |-> op, reqctx |-> reqctx, args |-> args]
    /\ stub' = st
    /\ out' = r
    /\ UNCHANGED <<connected, lifespan, app_context>>

\* the caller takes the result
Return ==
    /\ pc = "returned"
    /\ pc' = "idle"
    /\ call' = NoCall
    /\ stub' = NoStub
    /\ out' = Val(None, <<>>)
    /\ UNCHANGED <<connected, lifespan, app_context>>

LeadToolsCall ==
    /\ pc = "idle" /\ lifespan = "down"
    /\ \E st \in Stubs :
            \/ \E f \in FilterArgs, s \in SelectArgs, n \in Limits :
                Invoke("tool", "LeadTools", "get_leads", FALSE,
                         [filter_params |-> f, select_fields |-> s, limit |-> n], st,
                         LeadTools_get_leads(Client(st), f, s, n))
            \/ \E fields \in FieldsArgs :
                Invoke("tool", "LeadTools", "create_lead", FALSE, [fields |-> fields], st,
                         LeadTools_create_lead(Client(st), fields))
            \/ \E id \in Ids, fields \in FieldsArgs :
                Invoke("tool", "LeadTools", "update_lead", FALSE, [id |-> id, fields |-> fields], st,
                         LeadTools_update_lead(Client(st), id, fields))
            \/ \E id \in Ids :
                Invoke("tool", "LeadTools", "get_lead", FALSE, [id |-> id], st, LeadTools_get_lead(Client(st), id))
            \/ Invoke("tool", "LeadTools", "get_lead_fields", FALSE, [none |-> None], st,
                        LeadTools_get_lead_fields(Client(st)))

DealToolsCall ==
    /\ pc = "idle" /\ lifespan = "down"
    /\ \E st \in Stubs :
            \/ \E f \in FilterArgs, s \in SelectArgs, n \in Limits :
                Invoke("tool", "DealTools", "get_deals", FALSE,
                         [filter_params |-> f, select_fields |-> s, limit |-> n], st,
                         DealTools_get_deals(Client(st), f, s, n))
            \/ \E fields \in FieldsArgs :
                Invoke("tool", "DealTools", "create_deal", FALSE, [fields |-> fields], st,
                         DealTools_create_deal(Client(st), fields))
            \/ \E id \in Ids, fields \in FieldsArgs :
                Invoke("tool", "DealTools", "update_deal", FALSE, [id |-> id, fields |-> fields], st,
                         DealTools_update_deal(Client(st), id, fields))
            \/ \E id \in Ids :
                Invoke("tool", "DealTools", "get_deal", FALSE, [id |-> id], st, DealTools_get_deal(Client(st), id))
            \/ Invoke("tool", "DealTools", "get_deal_fields", FALSE, [none |-> None], st,
                        DealTools_get_deal_fields(Client(st)))

ContactToolsCall ==
    /\ pc = "idle" /\ lifespan = "down"
    /\ \E st \in Stubs :
            \/ \E f \in FilterArgs, s \in SelectArgs, o \in OrderArgs, n \in Limits :
                Invoke("tool", "ContactTools", "get_contacts", FALSE,
                         [filter_params |-> f, select_fields |-> s, order |-> o, limit |-> n], st,
                         ContactTools_get_contacts(Client(st), f, s, o, n))
            \/ \E fields \in FieldsArgs :
                Invoke("tool", "ContactTools", "create_contact", FALSE, [fields |-> fields], st,
                         ContactTools_create_contact(Client(st), fields))
            \/ \E id \in Ids, fields \in FieldsArgs :
                Invoke("tool", "ContactTools", "update_contact", FALSE, [id |-> id, fields |-> fields], st,
                         ContactTools_update_contact(Client(st), id, fields))
            \/ \E id \in Ids :
                Invoke("tool", "ContactTools", "get_contact", FALSE, [id |-> id], st,
                         ContactTools_get_contact(Client(st), id))
            \/ Invoke("tool", "ContactTools", "get_contact_fields", FALSE, [none |-> None], st,
                        ContactTools_get_contact_fields(Client(st)))

CompanyToolsCall ==
    /\ pc = "idle" /\ lifespan = "down"
    /\ \E st \in Stubs :
            \/ \E f \in FilterArgs, s \in SelectArgs, n \in Limits :
                Invoke("tool", "CompanyTools", "get_companies", FALSE,
                         [filter_params |-> f, select_fields |-> s, limit |-> n], st,
                         CompanyTools_get_companies(Client(st), f, s, n))
            \/ \E fields \in FieldsArgs :
                Invoke("tool", "CompanyTools", "create_company", FALSE, [fields |-> fields], st,
                         CompanyTools_create_company(Client(st), fields))
            \/ \E id \in Ids, fields \in FieldsArgs :
                Invoke("tool", "CompanyTools", "update_company", FALSE, [id |-> id, fields |-> fields], st,
                         CompanyTools_update_company(Client(st), id, fields))
            \/ \E id \in Ids :
                Invoke("tool", "CompanyTools", "get_company", FALSE, [id |-> id], st,
                         CompanyTools_get_company(Client(st), id))
            \/ Invoke("tool", "CompanyTools", "get_company_fields", FALSE, [none |-> None], st,
                        CompanyTools_get_company_fields(Client(st)))

TaskToolsCall ==
    /\ pc = "idle" /\ lifespan = "down"
    /\ \E st \in Stubs :
            \/ \E f \in FilterArgs, s \in SelectArgs, n \in Limits :
                Invoke("tool", "TaskTools", "get_tasks", FALSE,
                         [filter_params |-> f, select_fields |-> s, limit |-> n], st,
                         TaskTools_get_tasks(Client(st), f, s, n))
            \/ \E fields \in FieldsArgs :
                Invoke("tool", "TaskTools", "create_task", FALSE, [fields |-> fields], st,
                         TaskTools_create_task(Client(st), fields))
            \/ \E id \in Ids, fields \in FieldsArgs :
                Invoke("tool", "TaskTools", "update_task", FALSE, [id |-> id, fields |-> fields], st,
                         TaskTools_update_task(Client(st), id, fields))
            \/ \E id \in Ids :
                Invoke("tool", "TaskTools", "complete_task", FALSE, [id |-> id], st,
                         TaskTools_complete_task(Client(st), id))
            \/ \E id \in Ids :
                Invoke("tool", "TaskTools", "get_task", FALSE, [id |-> id], st, TaskTools_get_task(Client(st), id))
            \/ \E id \in Ids :
                Invoke("tool", "TaskTools", "approve_task", FALSE, [id |-> id], st,
                         TaskTools_approve_task(Client(st), id))
            \/ \E id \in Ids :
                Invoke("tool", "TaskTools", "start_task", FALSE, [id |-> id], st,
                         TaskTools_start_task(Client(st), id))
            \/ \E id \in Ids, user_id \in Ids :
                Invoke("tool", "TaskTools", "delegate_task", FALSE, [id |-> id, user_id |-> user_id], st,
                         TaskTools_delegate_task(Client(st), id, user_id))
            \/ \E id \in Ids :
                Invoke("tool", "TaskTools", "renew_task", FALSE, [id |-> id], st,
                         TaskTools_renew_task(Client(st), id))
            \/ \E id \in Ids :
                Invoke("tool", "TaskTools", "start_watching_task", FALSE, [id |-> id], st,
                         TaskTools_start_watching_task(Client(st), id))
            \/ \E id \in Ids :
                Invoke("tool", "TaskTools", "disapprove_task", FALSE, [id |-> id], st,
                         TaskTools_disapprove_task(Client(st), id))

CalendarToolsCall ==
    /\ pc = "idle" /\ lifespan = "down"
    /\ \E st \in Stubs :
            \/ \E f \in EventFilterArgs, from \in {None, S(""), S("2024-01-01")}, to \in {None, S("2024-01-31")},
                  n \in Limits, sections \in SectionArgs :
                Invoke("tool", "CalendarTools", "get_events", FALSE,
                         [filter_params |-> f, date_from |-> from, date_to |-> to, limit |-> n,
                          sections |-> sections], st,
                         CalendarTools_get_events(Client(st), f, from, to, n, sections))
            \/ \E fields \in FieldsArgs :
                Invoke("tool", "CalendarTools", "create_event", FALSE, [fields |-> fields], st,
                         CalendarTools_create_event(Client(st), fields))
            \/ \E id \in Ids, fields \in FieldsArgs :
                Invoke("tool", "CalendarTools", "update_event", FALSE, [id |-> id, fields |-> fields], st,
                         CalendarTools_update_event(Client(st), id, fields))
            \/ \E id \in Ids :
                Invoke("tool", "CalendarTools", "delete_event", FALSE, [id |-> id], st,
                         CalendarTools_delete_event(Client(st), id))
            \/ \E f \in CalendarArgs :
                Invoke("tool", "CalendarTools", "get_calendar_list", FALSE, [filter_params |-> f], st,
                         CalendarTools_get_calendar_list(Client(st), f))
            \/ \E id \in Ids :
                Invoke("tool", "CalendarTools", "get_event_by_id", FALSE, [id |-> id], st,
                         CalendarTools_get_event_by_id(Client(st), id))
            \/ \E owner_id \in {None, S("7"), S("x")}, days \in {I(DefaultDays), I(7)},
                  for_current_user \in {B(TRUE), B(FALSE)}, max_events_count \in {None, I(5)} :
                Invoke("tool", "CalendarTools", "get_nearest_events", FALSE,
                         [calendar_type |-> S("user"), owner_id |-> owner_id, days |-> days,
                          for_current_user |-> for_current_user,
                          max_events_count |-> max_events_count, detail_url |-> None], st,
                         CalendarTools_get_nearest_events(Client(st), S("user"), owner_id, days,
                                                          for_current_user, max_events_count, None))
            \/ \E id \in Ids :
                Invoke("tool", "CalendarTools", "get_meeting_status", FALSE, [id |-> id], st,
                         CalendarTools_get_meeting_status(Client(st), id))
            \/ \E id \in Ids, status \in {S("Y"), S("N"), S("Q"), S("X"), S("")} :
                Invoke("tool", "CalendarTools", "set_meeting_status", FALSE, [id |-> id, status |-> status], st,
                         CalendarTools_set_meeting_status(Client(st), id, status))

ProjectToolsCall ==
    /\ pc = "idle" /\ lifespan = "down"
    /\ \E st \in Stubs :
            \/ \E f \in FilterArgs, n \in Limits :
                Invoke("tool", "ProjectTools", "get_projects", FALSE, [filter_params |-> f, limit |-> n], st,
                         ProjectTools_get_projects(Client(st), f, n))
            \/ \E fields \in FieldsArgs :
                Invoke("tool", "ProjectTools", "create_project", FALSE, [fields |-> fields], st,
                         ProjectTools_create_project(Client(st), fields))
            \/ \E id \in Ids, fields \in FieldsArgs :
                Invoke("tool", "ProjectTools", "update_project", FALSE, [id |-> id, fields |-> fields], st,
                         ProjectTools_update_project(Client(st), id, fields))
            \/ \E id \in Ids, n \in Limits :
                Invoke("tool", "ProjectTools", "get_project_tasks", FALSE, [id |-> id, limit |-> n], st,
                         ProjectTools_get_project_tasks(Client(st), id, n))
            \/ \E id \in Ids, user_id \in Ids, role \in {S("member"), S("moderator")} :
                Invoke("tool", "ProjectTools", "add_project_member", FALSE,
                         [id |-> id, user_id |-> user_id, role |-> role], st,
                         ProjectTools_add_project_member(Client(st), id, user_id, role))
            \/ \E id \in Ids :
                Invoke("tool", "ProjectTools", "get_project_members", FALSE, [id |-> id], st,
                         ProjectTools_get_project_members(Client(st), id))
            \/ \E id \in Ids, user_id \in Ids :
                Invoke("tool", "ProjectTools", "expel_project_member", FALSE, [id |-> id, user_id |-> user_id], st,
                         ProjectTools_expel_project_member(Client(st), id, user_id))
            \/ \E id \in Ids, message \in Messages :
                Invoke("tool", "ProjectTools", "request_join_project", FALSE, [id |-> id, message |-> message], st,
                         ProjectTools_request_join_project(Client(st), id, message))
            \/ \E id \in Ids, user_id \in Ids, message \in Messages :
                Invoke("tool", "ProjectTools", "invite_project_member", FALSE,
                         [id |-> id, user_id |-> user_id, message |-> message], st,
                         ProjectTools_invite_project_member(Client(st), id, user_id, message))

(***************************************************************************)
(* The tools create_server registers (server.py).                          *)
(***************************************************************************)
\* x or None
OrNone(x) == IF Truthy(x) THEN x ELSE None

\* _get_app_context: the lifespan context of the request when the request context is
\* available (reqctx), else the server's _app_context, else RuntimeError
get_app_context(reqctx) ==
    IF reqctx \/ app_context THEN Val(None, <<>>)
    ELSE Raise("RuntimeError", "Bitrix24 application context is not initialized", <<>>)

\* a call that passes one positional argument more than the method has parameters: the
\* surplus puts arg on the method's last parameter, limit: int, where beartype checks it
\* before Python binds the arguments
ExtraPositional(qualname, arg, accepted) ==
    IF arg.t # "int" THEN ParamViolation("limit")
    ELSE Raise("TypeError",
               qualname \o "() takes from 1 to " \o ToString(accepted + 1)
               \o " positional arguments but " \o ToString(accepted + 2) \o " were given", <<>>)

\* a call of a method the class does not define
MissingMethod(class, name) ==
    Raise("AttributeError", "'" \o class \o "' object has no attribute '" \o name \o "'", <<>>)

ServerStubs ==
    { st \in Stubs : st.raises
        \/ st.resp \in {Records(0), Records(MaxRecords), L(<<Records(1)>>), L(<<ResultId>>)} }
\* the arguments a registered tool draws: strings and integers, never None
ServerArgs ==
    [filter |-> {S(""), S("{bad}"), S("{\"STATUS_ID\": \"NEW\"}")},
     order |-> {S(""), S("{\"DATE_CREATE\": \"DESC\"}")},
     limit |-> {I(0), I(DefaultLimit)},
     fields |-> {S("{bad}"), S("{\"TITLE\": \"ACME\"}")}]

\* app_ctx = _get_app_context(context); return await app_ctx.<group>.<method>(...)
ServerCall(op, reqctx, args, st, r) ==
    /\ reqctx => lifespan = "up"
    /\ Invoke("server", "create_server", op, reqctx, args, st,
              IF get_app_context(reqctx).exc THEN get_app_context(reqctx) ELSE r)

ServerLeadTools ==
    /\ pc = "idle"
    /\ \E st \in ServerStubs, rc \in BOOLEAN :
        \/ \E f \in ServerArgs.filter, o \in ServerArgs.order, n \in ServerArgs.limit :
            ServerCall("get_leads", rc,
                       [filter_params |-> f, select_fields |-> S(""), order |-> o, limit |-> n],
                       st, ExtraPositional("LeadTools.get_leads", OrNone(o), 3))
        \/ \E fields \in ServerArgs.fields :
            ServerCall("create_lead", rc, [fields |-> fields], st,
                       LeadTools_create_lead(Client(st), fields))
        \/ \E id \in Ids, fields \in ServerArgs.fields :
            ServerCall("update_lead", rc, [id |-> id, fields |-> fields], st,
                       LeadTools_update_lead(Client(st), id, fields))
        \/ ServerCall("get_lead_fields", rc, [none |-> None], st,
                      LeadTools_get_lead_fields(Client(st)))
        \/ \E id \in Ids :
            ServerCall("get_lead", rc, [id |-> id], st, LeadTools_get_lead(Client(st), id))

ServerDealTools ==
    /\ pc = "idle"
    /\ \E st \in ServerStubs, rc \in BOOLEAN :
        \/ \E f \in ServerArgs.filter, o \in ServerArgs.order, n \in ServerArgs.limit :
            ServerCall("get_deals", rc,
                       [filter_params |-> f, select_fields |-> S(""), order |-> o, limit |-> n],
                       st, ExtraPositional("DealTools.get_deals", OrNone(o), 3))
        \/ \E fields \in ServerArgs.fields :
            ServerCall("create_deal", rc, [fields |-> fields], st,
                       DealTools_create_deal(Client(st), fields))
        \/ \E id \in Ids, fields \in ServerArgs.fields :
            ServerCall("update_deal", rc, [id |-> id, fields |-> fields], st,
                       DealTools_update_deal(Client(st), id, fields))
        \/ ServerCall("get_deal_fields", rc, [none |-> None], st,
                      DealTools_get_deal_fields(Client(st)))
        \/ \E id \in Ids :
            ServerCall("get_deal", rc, [id |-> id], st, DealTools_get_deal(Client(st), id))

ServerContactTools ==
    /\ pc = "idle"
    /\ \E st \in ServerStubs, rc \in BOOLEAN :
        \/ \E f \in ServerArgs.filter, o \in ServerArgs.order, n \in ServerArgs.limit :
            ServerCall("get_contacts", rc,
                       [filter_params |-> f, select_fields |-> S(""), order |-> o, limit |-> n],
                       st, ContactTools_get_contacts(Client(st), OrNone(f), OrNone(S("")),
                                                     OrNone(o), n))
        \/ \E fields \in ServerArgs.fields :
            ServerCall("create_contact", rc, [fields |-> fields], st,
                       ContactTools_create_contact(Client(st), fields))
        \/ \E id \in Ids, fields \in ServerArgs.fields :
            ServerCall("update_contact", rc, [id |-> id, fields |-> fields], st,
                       ContactTools_update_contact(Client(st), id, fields))
        \/ ServerCall("get_contact_fields", rc, [none |-> None], st,
                      ContactTools_get_contact_fields(Client(st)))
        \/ \E id \in Ids :
            ServerCall("get_contact", rc, [id |-> id], st,
                       ContactTools_get_contact(Client(st), id))

ServerCompanyTools ==
    /\ pc = "idle"
    /\ \E st \in ServerStubs, rc \in BOOLEAN :
        \/ \E f \in ServerArgs.filter, o \in ServerArgs.order, n \in ServerArgs.limit :
            ServerCall("get_companies", rc,
                       [filter_params |-> f, select_fields |-> S(""), order |-> o, limit |-> n],
                       st, ExtraPositional("CompanyTools.get_companies", OrNone(o), 3))
        \/ \E fields \in ServerArgs.fields :
            ServerCall("create_company", rc, [fields |-> fields], st,
                       CompanyTools_create_company(Client(st), fields))
        \/ \E id \in Ids, fields \in ServerArgs.fields :
            ServerCall("update_company", rc, [id |-> id, fields |-> fields], st,
                       CompanyTools_update_company(Client(st), id, fields))
        \/ ServerCall("get_company_fields", rc, [none |-> None], st,
                      CompanyTools_get_company_fields(Client(st)))
        \/ \E id \in Ids :
            ServerCall("get_company", rc, [id |-> id], st,
                       CompanyTools_get_company(Client(st), id))

ServerTaskTools ==
    /\ pc = "idle"
    /\ \E st \in ServerStubs, rc \in BOOLEAN :
        \/ \E f \in ServerArgs.filter, o \in ServerArgs.order, n \in ServerArgs.limit :
            ServerCall("get_tasks", rc,
                       [filter_params |-> f, select_fields |-> S(""), order |-> o, limit |-> n],
                       st, ExtraPositional("TaskTools.get_tasks", OrNone(o), 3))
        \/ \E fields \in ServerArgs.fields :
            ServerCall("create_task", rc, [fields |-> fields], st,
                       TaskTools_create_task(Client(st), fields))
        \/ \E id \in Ids, fields \in ServerArgs.fields :
            ServerCall("update_task", rc, [id |-> id, fields |-> fields], st,
                       TaskTools_update_task(Client(st), id, fields))
        \/ \E id \in Ids :
            ServerCall("complete_task", rc, [id |-> id], st,
                       TaskTools_complete_task(Client(st), id))
        \/ ServerCall("get_task_fields", rc, [none |-> None], st,
                      MissingMethod("TaskTools", "get_task_fields"))
        \/ \E id \in Ids :
            ServerCall("get_task_by_id", rc, [id |-> id], st, TaskTools_get_task(Client(st), id))
        \/ \E id \in Ids :
            ServerCall("approve_task", rc, [id |-> id], st, TaskTools_approve_task(Client(st), id))
        \/ \E id \in Ids :
            ServerCall("start_task", rc, [id |-> id], st, TaskTools_start_task(Client(st), id))
        \/ \E id \in Ids, user_id \in Ids :
            ServerCall("delegate_task", rc, [id |-> id, user_id |-> user_id], st,
                       TaskTools_delegate_task(Client(st), id, user_id))
        \/ \E id \in Ids :
            ServerCall("renew_task", rc, [id |-> id], st, TaskTools_renew_task(Client(st), id))
        \/ \E id \in Ids :
            ServerCall("start_watching_task", rc, [id |-> id], st,
                       TaskTools_start_watching_task(Client(st), id))
        \/ \E id \in Ids :
            ServerCall("disapprove_task", rc, [id |-> id], st,
                       TaskTools_disapprove_task(Client(st), id))

ServerCalendarTools ==
    /\ pc = "idle"
    /\ \E st \in ServerStubs, rc \in BOOLEAN :
        \/ \E f \in ServerArgs.filter, from \in {S(""), S("2024-01-01")}, n \in ServerArgs.limit,
              sections \in {S(""), S("44,99")} :
            ServerCall("get_calendar_events", rc,
                       [filter_params |-> f, date_from |-> from, date_to |-> S(""), limit |-> n,
                        sections |-> sections], st,
                       CalendarTools_get_events(Client(st), OrNone(f), OrNone(from), OrNone(S("")),
                                                n, OrNone(sections)))
        \/ \E fields \in ServerArgs.fields :
            ServerCall("create_calendar_event", rc, [fields |-> fields], st,
                       CalendarTools_create_event(Client(st), fields))
        \/ \E id \in Ids, fields \in ServerArgs.fields :
            ServerCall("update_calendar_event", rc, [id |-> id, fields |-> fields], st,
                       CalendarTools_update_event(Client(st), id, fields))
        \/ \E id \in Ids :
            ServerCall("delete_calendar_event", rc, [id |-> id], st,
                       CalendarTools_delete_event(Client(st), id))
        \/ \E f \in ServerArgs.filter :
            ServerCall("get_calendar_list", rc, [filter_params |-> f], st,
                       CalendarTools_get_calendar_list(Client(st), OrNone(f)))
        \/ \E id \in Ids :
            ServerCall("get_calendar_event_by_id", rc, [id |-> id], st,
                       CalendarTools_get_event_by_id(Client(st), id))
        \/ \E owner_id \in {S(""), S("7"), S("x")}, max_events_count \in {I(0), I(5)} :
            ServerCall("get_nearest_calendar_events", rc,
                       [calendar_type |-> S("user"), owner_id |-> owner_id,
                        days |-> I(DefaultDays), for_current_user |-> B(TRUE),
                        max_events_count |-> max_events_count, detail_url |-> S("")], st,
                       CalendarTools_get_nearest_events(Client(st), S("user"), OrNone(owner_id),
                            I(DefaultDays), B(TRUE),
                            IF max_events_count.i > 0 THEN max_events_count ELSE None,
                            OrNone(S(""))))
        \/ \E id \in Ids :
            ServerCall("get_meeting_status", rc, [id |-> id], st,
                       CalendarTools_get_meeting_status(Client(st), id))
        \/ \E id \in Ids, status \in {S("Y"), S("X")} :
            ServerCall("set_meeting_status", rc, [id |-> id, status |-> status], st,
                       CalendarTools_set_meeting_status(Client(st), id, status))

ServerProjectTools ==
    /\ pc = "idle"
    /\ \E st \in ServerStubs, rc \in BOOLEAN :
        \/ \E f \in ServerArgs.filter, o \in ServerArgs.order, n \in ServerArgs.limit :
            ServerCall("get_projects", rc, [filter_params |-> f, order |-> o, limit |-> n], st,
                       ExtraPositional("ProjectTools.get_projects", OrNone(o), 2))
        \/ \E fields \in ServerArgs.fields :
            ServerCall("create_project", rc, [fields |-> fields], st,
                       ProjectTools_create_project(Client(st), fields))
        \/ \E id \in Ids, fields \in ServerArgs.fields :
            ServerCall("update_project", rc, [id |-> id, fields |-> fields], st,
                       ProjectTools_update_project(Client(st), id, fields))
        \/ \E id \in Ids, n \in ServerArgs.limit :
            ServerCall("get_project_tasks", rc, [id |-> id, limit |-> n], st,
                       ProjectTools_get_project_tasks(Client(st), id, n))
        \/ \E id \in Ids, user_id \in Ids :
            ServerCall("add_project_member", rc,
                       [id |-> id, user_id |-> user_id, role |-> S("member")], st,
                       ProjectTools_add_project_member(Client(st), id, user_id, S("member")))
        \/ \E id \in Ids :
            ServerCall("get_project_members", rc, [id |-> id], st,
                       ProjectTools_get_project_members(Client(st), id))
        \/ \E id \in Ids, user_id \in Ids :
            ServerCall("expel_project_member", rc, [id |-> id, user_id |-> user_id], st,
                       ProjectTools_expel_project_member(Client(st), id, user_id))
        \/ \E id \in Ids, message \in Messages :
            ServerCall("request_join_project", rc, [id |-> id, message |-> message], st,
                       ProjectTools_request_join_project(Client(st), id, message))
        \/ \E id \in Ids, user_id \in Ids, message \in Messages :
            ServerCall("invite_project_member", rc,
                       [id |-> id, user_id |-> user_id, message |-> message], st,
                       ProjectTools_invite_project_member(Client(st), id, user_id, message))

(***************************************************************************)
(* Life cycle (client.py, server.py).                                      *)
(***************************************************************************)
\* BitrixClient.connect on a client of its own: it sets _client or raises
BitrixClient_connect ==
    /\ pc = "idle" /\ lifespan = "down"
    /\ \E ok \in BOOLEAN : connected' = IF ok THEN TRUE ELSE connected
    /\ UNCHANGED <<lifespan, app_context, pc, call, stub, out>>

\* BitrixClient.disconnect: idempotent
BitrixClient_disconnect ==
    /\ pc = "idle" /\ lifespan = "down"
    /\ connected' = FALSE
    /\ UNCHANGED <<lifespan, app_context, pc, call, stub, out>>

\* app_lifespan up to the client being entered: get_bitrix_client connects; when the
\* connect raises its finally disconnects and nothing is yielded
app_lifespan_connect ==
    /\ pc = "idle" /\ lifespan = "down" /\ ~connected
    /\ \E ok \in BOOLEAN :
        /\ connected' = ok
        /\ lifespan' = IF ok THEN "connected" ELSE "down"
    /\ UNCHANGED <<app_context, pc, call, stub, out>>

\* the tool groups and the AppContext are built, setattr(server, "_app_context", ...), yield
app_lifespan_yield ==
    /\ pc = "idle" /\ lifespan = "connected"
    /\ app_context' = TRUE
    /\ lifespan' = "up"
    /\ UNCHANGED <<connected, pc, call, stub, out>>

\* Mutation of app_lifespan_finally: the body ends and _app_context stays on the server.
app_lifespan_keeps_context ==
    /\ pc = "idle" /\ lifespan = "up"
    /\ lifespan' = "closing"
    /\ UNCHANGED <<connected, app_context, pc, call, stub, out>>

\* the finally of app_lifespan: delattr(server, "_app_context")
app_lifespan_finally ==
    /\ pc = "idle" /\ lifespan = "up"
    /\ app_context' = FALSE
    /\ lifespan' = "closing"
    /\ UNCHANGED <<connected, pc, call, stub, out>>

\* Mutation of app_lifespan_disconnect: the block ends without disconnecting.
app_lifespan_leak ==
    /\ pc = "idle" /\ lifespan = "closing"
    /\ lifespan' = "down"
    /\ UNCHANGED <<connected, app_context, pc, call, stub, out>>

\* the exit of get_bitrix_client: its finally disconnects
app_lifespan_disconnect ==
    /\ pc = "idle" /\ lifespan = "closing"
    /\ connected' = FALSE
    /\ lifespan' = "down"
    /\ UNCHANGED <<app_context, pc, call, stub, out>>

Next ==
    \/ LeadToolsCall
    \/ DealToolsCall
    \/ ContactToolsCall
    \/ CompanyToolsCall
    \/ TaskToolsCall
    \/ CalendarToolsCall
    \/ ProjectToolsCall
    \/ ServerLeadTools
    \/ ServerDealTools
    \/ ServerContactTools
    \/ ServerCompanyTools
    \/ ServerTaskTools
    \/ ServerCalendarTools
    \/ ServerProjectTools
    \/ Return
    \/ BitrixClient_connect
    \/ BitrixClient_disconnect
    \/ app_lifespan_connect
    \/ app_lifespan_yield
    \/ app_lifespan_finally
    \/ app_lifespan_disconnect

Spec == Init /\ [][Next]_vars

(***************************************************************************)
(* Properties.                                                             *)
(***************************************************************************)
\* an invocation of the given layer has returned
Returned(layer) == pc = "returned" /\ call.layer = layer

\* r is a returned JSON text that encodes an object
IsEnvelope(r) == ~r.exc /\ r.v.t = "text" /\ IsDict(r.v.doc)

\* r is a returned failure envelope {success: false, error: <string>}
IsFailure(r) ==
    /\ IsEnvelope(r)
    /\ DOMAIN r.v.doc.d = {"success", "error"}
    /\ r.v.doc.d["success"] = B(FALSE)
    /\ r.v.doc.d["error"].t = "str"

\* the JSON-encoded arguments of the invocation that are non-empty and do not parse
InvalidJsonArgs ==
    { k \in DOMAIN call.args \cap {"filter_params", "fields", "order"} :
        /\ Truthy(call.args[k])
        /\ JsonLoads(call.args[k].s).exc }

\* the transport returned a response to a request of the invocation
Responded == out.calls # <<>> /\ ~stub.raises

\* the response has a first element
HasFirst(resp) == resp.t \in {"list", "tuple"} /\ Len(resp.l) > 0

\* C1: every operation of the seven tool groups returns a JSON text and never raises: an
\* exception of the transport call becomes the failure envelope carrying its message, and
\* so does an exception raised while the arguments are parsed or normalized (a text that
\* is not JSON, an owner id that is not a number).
C1_ExceptionsBecomeFailureEnvelopes ==
    Returned("tool") =>
        /\ ~out.exc
        /\ IsEnvelope(out)
        /\ (stub.raises /\ out.calls # <<>> => out.v.doc = FailureEnvelope(stub.msg))
        /\ (InvalidJsonArgs # {} => IsFailure(out))
        /\ (call.op = "get_nearest_events" /\ call.args.owner_id = S("x") =>
                out.v.doc = FailureEnvelope("invalid literal for int() with base 10: 'x'"))

\* a tool operation whose transport call raised has returned the failure envelope
C1_Witness ==
    /\ Returned("tool")
    /\ call.op = "delete_event"
    /\ stub.raises
    /\ out.calls = <<Request("call", "calendar.event.delete", D([id |-> call.args.id]))>>
    /\ out.v.doc = FailureEnvelope("API error")

\* C2: every tool registered by create_server, invoked while the application context is
\* initialized, returns a JSON envelope with a boolean success field and does not raise.
C2_ServerToolsReturnEnvelopes ==
    (Returned("server") /\ (call.reqctx \/ app_context)) =>
        /\ ~out.exc
        /\ IsEnvelope(out)
        /\ Has(out.v.doc, "success")
        /\ out.v.doc.d["success"].t = "bool"

\* C3: a non-empty filter, fields or order argument that is not JSON makes the operation
\* return {success: false, error: <non-empty string>} and no transport request is issued.
C3_InvalidJsonFailsWithoutRequest ==
    (Returned("tool") /\ InvalidJsonArgs # {}) =>
        /\ IsFailure(out)
        /\ out.v.doc.d["error"].s # ""
        /\ out.calls = <<>>

\* a list operation on a connected client was given a filter that is not JSON
C3_Witness ==
    /\ Returned("tool")
    /\ call.op = "get_contacts"
    /\ connected /\ ~stub.raises
    /\ call.args.filter_params = S("{bad}")
    /\ call.args.order = S("{\"DATE_CREATE\": \"DESC\"}")
    /\ IsFailure(out)
    /\ out.calls = <<>>

\* the single-entity get operations: the key and the name of the entity
GetOps ==
    [get_lead |-> [key |-> "lead", entity |-> "Lead"],
     get_deal |-> [key |-> "deal", entity |-> "Deal"],
     get_contact |-> [key |-> "contact", entity |-> "Contact"],
     get_company |-> [key |-> "company", entity |-> "Company"],
     get_task |-> [key |-> "task", entity |-> "Task"],
     get_event_by_id |-> [key |-> "event", entity |-> "Event"]]

\* a single-entity get is invoked on a connected client whose transport answers resp
Fetching(resp) ==
    /\ Returned("tool")
    /\ call.op \in DOMAIN GetOps
    /\ connected
    /\ stub = [raises |-> FALSE, msg |-> "", resp |-> resp]

\* the responses from which the client's fetch yields an empty or null record
EmptyFetches == {L(<<>>), T(<<>>), None, D(EmptyDict), L(<<None>>), L(<<D(EmptyDict)>>)}

\* C4: a single-entity get whose fetch yields an empty or null record returns exactly
\* {success: false, error: "<Entity> with ID <id> not found"}.
C4_EmptyFetchIsNotFound ==
    \A resp \in EmptyFetches :
        Fetching(resp) =>
            /\ ~out.exc
            /\ out.v.doc = FailureEnvelope(GetOps[call.op].entity \o " with ID "
                                           \o call.args.id.s \o " not found")

\* C5: a single-entity get whose fetch returns a non-empty record returns
\* {success: true, <entity>: <that record>}.
C5_FetchedRecordIsReturned ==
    \A record \in {ResultId, Rec(1)} :
        Fetching(L(<<record>>)) =>
            /\ ~out.exc
            /\ out.v.doc = D(("success" :> B(TRUE)) @@ (GetOps[call.op].key :> record))

\* the task lifecycle actions and their remote methods
LifecycleOps ==
    [approve_task |-> "tasks.task.approve", start_task |-> "tasks.task.start",
     delegate_task |-> "tasks.task.delegate", renew_task |-> "tasks.task.renew",
     start_watching_task |-> "tasks.task.startwatch",
     disapprove_task |-> "tasks.task.disapprove"]

\* C6: a task lifecycle action on a connected client performs the request
\* tasks.task.<action> with {taskId} (and userId for delegate) exactly once, and its
\* envelope echoes task_id with success the truthiness of the response's first element.
C6_LifecycleActionIsPerformed ==
    (/\ Returned("tool")
     /\ call.op \in DOMAIN LifecycleOps
     /\ connected /\ ~stub.raises /\ HasFirst(stub.resp)) =>
        /\ out.calls =
             <<Request("call", LifecycleOps[call.op],
                       IF call.op = "delegate_task"
                       THEN D([taskId |-> call.args.id, userId |-> call.args.user_id])
                       ELSE D([taskId |-> call.args.id]))>>
        /\ IsEnvelope(out)
        /\ Has(out.v.doc, "task_id") /\ out.v.doc.d["task_id"] = call.args.id
        /\ out.v.doc.d["success"] = B(Truthy(stub.resp.l[1]))

\* the update operations: the identifier key of the envelope and the entity
UpdateOps ==
    [update_lead |-> [key |-> "lead_id", entity |-> "lead"],
     update_deal |-> [key |-> "deal_id", entity |-> "deal"],
     update_contact |-> [key |-> "contact_id", entity |-> "contact"],
     update_company |-> [key |-> "company_id", entity |-> "company"],
     update_task |-> [key |-> "task_id", entity |-> "task"],
     update_event |-> [key |-> "event_id", entity |-> "event"],
     update_project |-> [key |-> "project_id", entity |-> "project"]]

\* C7: an update operation given fields that parse, whose request the transport answered:
\* an empty response or a falsy first element gives
\* {success: false, <entity>_id: id, message: "Failed to update <entity>"}, a truthy first
\* element gives success true with the same identifier; nothing is raised.
C7_UpdateReportsRemoteResult ==
    (/\ Returned("tool")
     /\ call.op \in DOMAIN UpdateOps
     /\ ~JsonLoads(call.args.fields.s).exc
     /\ Responded) =>
        /\ ~out.exc
        /\ Len(out.calls) = 1
        /\ (~Truthy(stub.resp) \/ (HasFirst(stub.resp) /\ ~Truthy(stub.resp.l[1])) =>
                out.v.doc = D(("success" :> B(FALSE))
                              @@ (UpdateOps[call.op].key :> call.args.id)
                              @@ ("message" :> S("Failed to update " \o UpdateOps[call.op].entity))))
        /\ (HasFirst(stub.resp) /\ Truthy(stub.resp.l[1]) =>
                /\ IsEnvelope(out)
                /\ DOMAIN out.v.doc.d = {"success", UpdateOps[call.op].key, "message"}
                /\ out.v.doc.d["success"] = B(TRUE)
                /\ out.v.doc.d[UpdateOps[call.op].key] = call.args.id)

\* update_task was answered with a falsy first element and reported the failure
C7_Witness ==
    /\ Returned("tool")
    /\ call.op = "update_task"
    /\ call.args.fields = S("{\"TITLE\": \"ACME\"}")
    /\ stub.resp = L(<<B(FALSE)>>)
    /\ Len(out.calls) = 1
    /\ out.v.doc = D([success |-> B(FALSE), task_id |-> call.args.id,
                      message |-> S("Failed to update task")])

\* the create operations: the identifier key, the remote method, the entity named in the
\* message and where the identifier is read from in the first element of the response
CreateOps ==
    [create_lead |-> [key |-> "lead_id", method |-> "crm.lead.add", entity |-> "Lead",
                      reads |-> "result"],
     create_deal |-> [key |-> "deal_id", method |-> "crm.deal.add", entity |-> "Deal",
                      reads |-> "result"],
     create_contact |-> [key |-> "contact_id", method |-> "crm.contact.add",
                         entity |-> "Contact", reads |-> "result"],
     create_company |-> [key |-> "company_id", method |-> "crm.company.add",
                         entity |-> "Company", reads |-> "result"],
     create_task |-> [key |-> "task_id", method |-> "tasks.task.add", entity |-> "Task",
                      reads |-> "task"],
     create_event |-> [key |-> "event_id", method |-> "calendar.event.add",
                       entity |-> "Calendar event", reads |-> "first"],
     create_project |-> [key |-> "project_id", method |-> "sonet_group.create",
                         entity |-> "Project", reads |-> "first"]]

\* the first element has the shape the operation reads the identifier from
Identifies(first, reads) ==
    CASE reads = "first" -> TRUE
      [] reads = "result" -> IsDict(first)
      [] reads = "task" ->
            /\ IsDict(first)
            /\ Has(first, "result") => /\ IsDict(first.d["result"])
                                       /\ Has(first.d["result"], "task") =>
                                            IsDict(first.d["result"].d["task"])

\* the identifier the remote returned in the first element
Identifier(first, reads) ==
    CASE reads = "first" -> first
      [] reads = "result" -> IF Has(first, "result") THEN first.d["result"] ELSE None
      [] reads = "task" ->
            IF Has(first, "result") /\ Has(first.d["result"], "task")
               /\ Has(first.d["result"].d["task"], "id")
            THEN first.d["result"].d["task"].d["id"]
            ELSE None

\* the envelope of a creation that returned id
Created(op, id) ==
    D(("success" :> B(TRUE)) @@ (CreateOps[op].key :> id)
      @@ ("message" :> S(CreateOps[op].entity \o " created successfully")))

\* C8: a create operation given a JSON object of fields on a connected client issues
\* exactly one add/create request carrying the parsed fields; when the transport answers,
\* the envelope is {success: true, <entity>_id: id, message: "<Entity> created
\* successfully"} with id null for an empty response and else the identifier held by the
\* first element.
C8_CreateIssuesOneRequest ==
    (/\ Returned("tool")
     /\ call.op \in DOMAIN CreateOps
     /\ connected
     /\ ~JsonLoads(call.args.fields.s).exc
     /\ IsDict(JsonLoads(call.args.fields.s).v)) =>
        LET op == CreateOps[call.op]
            parsed == JsonLoads(call.args.fields.s).v
        IN  /\ ~out.exc
            /\ out.calls = <<Request("call", op.method,
                                     IF op.reads = "first" THEN parsed
                                     ELSE D([fields |-> parsed]))>>
            /\ (~stub.raises /\ ~Truthy(stub.resp) => out.v.doc = Created(call.op, None))
            /\ (~stub.raises /\ HasFirst(stub.resp) /\ Identifies(stub.resp.l[1], op.reads) =>
                    out.v.doc = Created(call.op, Identifier(stub.resp.l[1], op.reads)))

\* create_company with {"TITLE": "ACME"} was answered [{"result": 123}]
C8_Witness ==
    /\ Returned("tool")
    /\ call.op = "create_company"
    /\ call.args.fields = S("{\"TITLE\": \"ACME\"}")
    /\ stub.resp = L(<<ResultId>>)
    /\ out.calls = <<Request("call", "crm.company.add",
                             D([fields |-> D([TITLE |-> S("ACME")])]))>>
    /\ out.v.doc = D([success |-> B(TRUE), company_id |-> I(123),
                      message |-> S("Company created successfully")])

\* the list operations and the key their envelope holds the list under
ListOps ==
    [get_leads |-> "leads", get_deals |-> "deals", get_contacts |-> "contacts",
     get_companies |-> "companies", get_tasks |-> "tasks", get_events |-> "events",
     get_nearest_events |-> "events", get_calendar_list |-> "calendars",
     get_projects |-> "projects", get_project_tasks |-> "tasks",
     get_project_members |-> "members"]

\* C9: every success envelope of a list operation holds a list and a count (or total)
\* equal to the number of its elements, whatever the transport answered.
C9_CountIsLengthOfList ==
    (/\ Returned("tool")
     /\ call.op \in DOMAIN ListOps
     /\ IsEnvelope(out)
     /\ out.v.doc.d["success"] = B(TRUE)) =>
        /\ Has(out.v.doc, ListOps[call.op])
        /\ IsList(out.v.doc.d[ListOps[call.op]])
        /\ \E k \in {"count", "total"} :
              /\ Has(out.v.doc, k)
              /\ out.v.doc.d[k] = I(Len(out.v.doc.d[ListOps[call.op]].l))

\* the result set the transport's response holds for the operation: the first element
\* for get_events (none when the response is empty), the response itself otherwise
ResultSet(op, resp) ==
    IF op = "get_events"
    THEN (IF Truthy(resp) THEN resp.l[1] ELSE L(<<>>))
    ELSE resp

\* the response holds a result set: a list of records
HoldsResultSet(op, resp) ==
    IF op = "get_events"
    THEN ~Truthy(resp) \/ (HasFirst(resp) /\ IsJSONList(resp.l[1]))
    ELSE IsJSONList(resp)

\* C10: a list operation given limit = 0 or a negative limit truncates nothing: the
\* envelope's list is the result set of the transport, unmodified and in the same order,
\* and count is its length.
C10_NoLimitNoTruncation ==
    (/\ Returned("tool")
     /\ call.op \in DOMAIN ListOps /\ "limit" \in DOMAIN call.args
     /\ call.args.limit.i <= 0
     /\ Responded
     /\ HoldsResultSet(call.op, stub.resp)) =>
        /\ IsEnvelope(out)
        /\ out.v.doc.d["success"] = B(TRUE)
        /\ out.v.doc.d[ListOps[call.op]] = ResultSet(call.op, stub.resp)
        /\ out.v.doc.d["count"] = I(Len(ResultSet(call.op, stub.resp).l))

\* get_leads with a negative limit returned all the records of the transport
C10_Witness ==
    /\ Returned("tool")
    /\ call.op = "get_leads"
    /\ call.args.limit = I(-1)
    /\ stub.resp = Records(MaxRecords)
    /\ out.v.doc = D([success |-> B(TRUE), count |-> I(MaxRecords),
                      leads |-> Records(MaxRecords)])

\* the first n elements of a sequence
FirstN(q, n) == [i \in 1..n |-> q[i]]

\* C11: a list operation given limit = N > 0 over a result set of more than N records
\* returns a success envelope holding exactly the first N records and count = N; for
\* get_events the raw response is a list or a tuple whose first element is the event list.
C11_LimitKeepsFirstN ==
    (/\ Returned("tool")
     /\ call.op \in DOMAIN ListOps /\ "limit" \in DOMAIN call.args
     /\ call.args.limit.i > 0
     /\ Responded
     /\ HoldsResultSet(call.op, stub.resp)
     /\ Len(ResultSet(call.op, stub.resp).l) > call.args.limit.i) =>
        /\ IsEnvelope(out)
        /\ out.v.doc.d["success"] = B(TRUE)
        /\ out.v.doc.d[ListOps[call.op]] =
             L(FirstN(ResultSet(call.op, stub.resp).l, call.args.limit.i))
        /\ out.v.doc.d["count"] = call.args.limit

\* C11 for every raw response but a tuple
C11_ListResponsesOnly ==
    stub.resp.t # "tuple" => C11_LimitKeepsFirstN

\* the argument k of the invocation is absent or empty
EmptyArg(k) == k \notin DOMAIN call.args \/ ~Truthy(call.args[k])

\* the JSON argument k of the invocation is absent, empty or encodes an empty value
EmptyJsonArg(k) == EmptyArg(k) \/ ~Truthy(JsonLoads(call.args[k].s).v)

\* the parameters of the first request carry the key k
Sends(k) == IsDict(out.calls[1].params) /\ Has(out.calls[1].params, k)

\* the filter of get_events holds no section value
NoFilterSection ==
    \/ EmptyJsonArg("filter_params")
    \/ LET f == JsonLoads(call.args.filter_params.s).v
       IN  IsDict(f) => (Has(f, "section") => CalendarTools_normalize_sections(f.d["section"]) = <<>>)

\* C12: an optional filter, order, field-selection, date or section argument that is
\* empty or absent produces no key in the parameters sent to the transport, and no such
\* key is ever sent with a null, empty-object or empty-list value; get_events sends no
\* 'section' key when normalization yields no section values.
C12_EmptyArgumentsSendNoKey ==
    (Returned("tool") /\ out.calls # <<>>) =>
        /\ call.op \in {"get_leads", "get_deals", "get_contacts", "get_companies", "get_tasks"} =>
                /\ EmptyJsonArg("filter_params") => ~Sends("filter")
                /\ EmptyArg("select_fields") => ~Sends("select")
                /\ EmptyJsonArg("order") => ~Sends("order")
        /\ call.op = "get_projects" =>
                /\ EmptyJsonArg("filter_params") => ~Sends("FILTER")
                /\ ~Sends("ORDER")
        /\ call.op = "get_events" =>
                /\ EmptyArg("date_from") => ~Sends("from")
                /\ EmptyArg("date_to") => ~Sends("to")
                /\ (EmptyArg("sections") /\ NoFilterSection) => ~Sends("section")
        /\ call.op \in DOMAIN ListOps =>
                \A k \in {"filter", "select", "order", "FILTER", "ORDER", "from", "to", "section"} :
                    Sends(k) => Truthy(out.calls[1].params.d[k])

\* get_events with empty dates and sections and a null filter section sent no key at all
C12_Witness ==
    /\ Returned("tool")
    /\ call.op = "get_events"
    /\ call.args.filter_params = S("{\"section\": null}")
    /\ call.args.date_from = S("") /\ call.args.sections = S("")
    /\ out.calls = <<Request("call", "calendar.event.get", D(EmptyDict))>>

\* get_leads is invoked on a connected client with a filter object, a field selection
\* and no order
LeadsFilteredAndSelected ==
    /\ Returned("tool")
    /\ call.op = "get_leads"
    /\ connected
    /\ call.args.filter_params = S("{\"STATUS_ID\": \"NEW\"}")
    /\ Truthy(call.args.select_fields)

\* C13: get_leads with a filter and a field selection and no order issues exactly one
\* crm.lead.list request whose parameters have exactly the keys filter (the parsed
\* filter) and select (the parsed field list): no order key, no start key.
C13_GetLeadsSendsFilterAndSelect ==
    LeadsFilteredAndSelected =>
        out.calls =
            <<Request("get_all", "crm.lead.list",
                      D([filter |-> D([STATUS_ID |-> S("NEW")]),
                         select |-> SplitOrNone(call.args.select_fields)]))>>

\* what get_leads sends instead: the same request with start = 0 added
C13_GetLeadsSendsStart ==
    LeadsFilteredAndSelected =>
        out.calls =
            <<Request("get_all", "crm.lead.list",
                      D([filter |-> D([STATUS_ID |-> S("NEW")]),
                         select |-> SplitOrNone(call.args.select_fields),
                         start |-> I(0)]))>>

\* the field names of a comma-separated string: trimmed, empty ones dropped, in order
FieldNames(s) ==
    LET names == SplitStripped(s)
    IN  L([i \in 1..Len(names) |-> S(names[i])])

\* the list operations that take a field selection
SelectOps == {"get_leads", "get_deals", "get_contacts", "get_companies", "get_tasks"}

\* C14: the field selection of get_leads, get_deals, get_contacts, get_companies and
\* get_tasks is sent as the list of its field names, trimmed of surrounding whitespace,
\* empty tokens dropped, order and duplicates kept; an empty or absent string sends none.
C14_SelectIsTrimmedFieldNames ==
    (Returned("tool") /\ call.op \in SelectOps /\ out.calls # <<>>) =>
        IF EmptyArg("select_fields") THEN ~Sends("select")
        ELSE /\ Sends("select")
             /\ out.calls[1].params.d["select"] = FieldNames(call.args.select_fields.s)

\* C14 for a selection that holds no blank and no empty token
C14_PlainSelections ==
    (~EmptyArg("select_fields") => call.args.select_fields = S("ID,TITLE")) =>
        C14_SelectIsTrimmedFieldNames

\* the elements of q whose string form no earlier element has, in the order of q
KeepFirst(q) ==
    LET keep == {i \in 1..Len(q) : \A j \in 1..(i - 1) : Str(q[j]) # Str(q[i])}
        nth(k) == CHOOSE i \in keep : Cardinality({j \in keep : j < i}) = k - 1
    IN  [k \in 1..Cardinality(keep) |-> q[nth(k)]]

\* the section values get_events is given: those of the filter's 'section' key, then
\* those of the sections argument
GivenSections ==
    LET f == LoadsOr(call.args.filter_params, D(EmptyDict)).v
    IN  (IF IsDict(f) /\ Has(f, "section")
         THEN CalendarTools_normalize_sections(f.d["section"]) ELSE <<>>)
        \o (IF Truthy(call.args.sections)
            THEN CalendarTools_normalize_sections(call.args.sections) ELSE <<>>)

\* C15: the 'section' value get_events sends is the normalized values of the filter's
\* 'section' key followed by those of the sections argument, without every element whose
\* string form equals that of an earlier element (first occurrence kept, order kept).
C15_SectionsMergedFirstKept ==
    (Returned("tool") /\ call.op = "get_events" /\ out.calls # <<>> /\ GivenSections # <<>>) =>
        /\ Sends("section")
        /\ out.calls[1].params.d["section"] = L(KeepFirst(GivenSections))

\* filter section [21, 44] with sections "44,99" sent [21, 44, 99]
C15_Witness ==
    /\ Returned("tool")
    /\ call.op = "get_events"
    /\ call.args.filter_params = S("{\"section\": [21, 44]}")
    /\ call.args.sections = S("44,99")
    /\ call.args.date_from = None /\ call.args.date_to = None
    /\ out.calls = <<Request("call", "calendar.event.get",
                             D([section |-> L(<<I(21), I(44), I(99)>>)]))>>

\* C16: set_meeting_status given a status outside {"Y", "N", "Q"} issues no transport
\* request and returns a failure envelope whose error cites the value and the allowed
\* set; given a status inside the set, on a connected client, it issues exactly one
\* calendar.meeting.status.set request.
C16_StatusIsValidatedBeforeRequest ==
    (Returned("tool") /\ call.op = "set_meeting_status") =>
        IF call.args.status.s \notin {"Y", "N", "Q"}
        THEN /\ out.calls = <<>>
             /\ IsFailure(out)
             /\ out.v.doc.d["error"] =
                    S("Invalid status '" \o call.args.status.s \o "'. Must be 'Y', 'N', or 'Q'")
        ELSE connected =>
                out.calls = <<Request("call", "calendar.meeting.status.set",
                                      D([eventId |-> call.args.id, status |-> call.args.status]))>>

\* set_meeting_status with the status "X" was refused without a request
C16_Witness ==
    /\ Returned("tool")
    /\ call.op = "set_meeting_status"
    /\ connected /\ ~stub.raises
    /\ call.args.status = S("X")
    /\ out.calls = <<>>
    /\ out.v.doc = FailureEnvelope("Invalid status 'X'. Must be 'Y', 'N', or 'Q'")

\* the list tools that advertise an order parameter and the key the remote method
\* takes the order under
OrderOps ==
    [get_leads |-> "order", get_deals |-> "order", get_contacts |-> "order",
     get_companies |-> "order", get_tasks |-> "order", get_projects |-> "ORDER"]

\* a registered list tool is invoked with an order object, a filter that parses, the
\* application context initialized and a transport that answers
OrderSupplied ==
    /\ Returned("server")
    /\ call.op \in DOMAIN OrderOps
    /\ call.reqctx \/ app_context
    /\ connected /\ ~stub.raises
    /\ call.args.order = S("{\"DATE_CREATE\": \"DESC\"}")
    /\ call.args.filter_params # S("{bad}")

\* C17: every list tool that advertises an order parameter accepts an order JSON object
\* and forwards the parsed object to the remote request (order key, ORDER for projects):
\* the order is neither dropped nor rejected.
C17_OrderIsForwarded ==
    OrderSupplied =>
        /\ ~out.exc
        /\ Len(out.calls) = 1
        /\ Sends(OrderOps[call.op])
        /\ out.calls[1].params.d[OrderOps[call.op]] = D([DATE_CREATE |-> S("DESC")])

\* C17 for get_contacts, the one list operation whose tool method takes an order
C17_ContactsForwardOrder ==
    call.op = "get_contacts" => C17_OrderIsForwarded

\* the key under which the remote method of an update takes the identifier
IdKeys ==
    [update_lead |-> "id", update_deal |-> "id", update_contact |-> "id",
     update_company |-> "id", update_event |-> "id", update_task |-> "taskId",
     update_project |-> "GROUP_ID"]

\* C18: the request of every update operation carries the identifier argument under the
\* method's id key, whatever keys the fields JSON contains, and the envelope's
\* <entity>_id is that identifier (when the transport answered with an empty response or
\* one that has a first element): fields holding the id key do not redirect the update.
C18_UpdateCarriesIdentifier ==
    (Returned("tool") /\ call.op \in DOMAIN IdKeys /\ out.calls # <<>>) =>
        /\ Sends(IdKeys[call.op])
        /\ out.calls[1].params.d[IdKeys[call.op]] = call.args.id
        /\ (Responded /\ (~Truthy(stub.resp) \/ HasFirst(stub.resp))) =>
                /\ IsEnvelope(out)
                /\ Has(out.v.doc, UpdateOps[call.op].key)
                /\ out.v.doc.d[UpdateOps[call.op].key] = call.args.id

\* C18 for every update operation but update_project
C18_AllButProjects ==
    call.op # "update_project" => C18_UpdateCarriesIdentifier

\* the owner value as it is sent: the integer it converts to, or the value itself
SentOwner(v) == IF IntOf(v).exc THEN v ELSE IntOf(v).v

\* C19: in the parameters get_calendar_list sends, a canonical key of the filter keeps its
\* value (the legacy keys are then left as they are); else the first legacy key present
\* (TYPE for type; OWNER_ID, then owner_id for ownerId) gives its value to the canonical
\* key and is itself removed; type is "user" only when the filter holds neither type nor
\* TYPE.  The owner value is sent after its integer coercion.
C19_AliasesRenamedFirstWins ==
    (/\ Returned("tool")
     /\ call.op = "get_calendar_list"
     /\ out.calls # <<>>) =>
        LET f == LoadsOr(call.args.filter_params, D(EmptyDict)).v
            p == out.calls[1].params
        IN  /\ IsDict(f) /\ IsDict(p)
            /\ Has(p, "type")
            /\ p.d["type"] = (IF Has(f, "type") THEN f.d["type"]
                              ELSE IF Has(f, "TYPE") THEN f.d["TYPE"]
                              ELSE S("user"))
            /\ Has(p, "TYPE") <=> (Has(f, "TYPE") /\ Has(f, "type"))
            /\ Has(p, "ownerId") <=> (\E k \in {"ownerId", "OWNER_ID", "owner_id"} : Has(f, k))
            /\ Has(p, "ownerId") =>
                    p.d["ownerId"] = SentOwner(IF Has(f, "ownerId") THEN f.d["ownerId"]
                                               ELSE IF Has(f, "OWNER_ID") THEN f.d["OWNER_ID"]
                                               ELSE f.d["owner_id"])
            /\ Has(p, "OWNER_ID") <=> (Has(f, "OWNER_ID") /\ Has(f, "ownerId"))
            /\ Has(p, "owner_id") <=>
                    (Has(f, "owner_id") /\ (Has(f, "ownerId") \/ Has(f, "OWNER_ID")))
            /\ \A k \in DOMAIN p.d \ {"type", "ownerId"} : Has(f, k) /\ p.d[k] = f.d[k]

\* a filter with TYPE, OWNER_ID and owner_id sent type, ownerId from OWNER_ID, and the
\* losing alias owner_id
C19_Witness ==
    /\ Returned("tool")
    /\ call.op = "get_calendar_list"
    /\ call.args.filter_params =
            S("{\"TYPE\": \"group\", \"OWNER_ID\": \"7\", \"owner_id\": \"8\"}")
    /\ out.calls = <<Request("call", "calendar.section.get",
                             D([type |-> S("group"), ownerId |-> I(7), owner_id |-> S("8")]))>>

\* the message of the JSONDecodeError the invocation raises: that of the first argument
\* parsed which is not JSON
ParseErrorMessage ==
    LET k == IF "filter_params" \in InvalidJsonArgs THEN "filter_params"
             ELSE CHOOSE x \in InvalidJsonArgs : TRUE
    IN  JsonLoads(call.args[k].s).msg

\* C20: a failure caused by an exception yields exactly {success: false, error: e} with
\* e the exception's message and nothing added, for a JSON parse failure as for an
\* exception of the transport.
C20_ErrorIsExceptionMessage ==
    Returned("tool") =>
        /\ InvalidJsonArgs # {} => out.v.doc = FailureEnvelope(ParseErrorMessage)
        /\ (InvalidJsonArgs = {} /\ stub.raises /\ out.calls # <<>>) =>
                out.v.doc = FailureEnvelope(stub.msg)

\* C20 for every operation but get_calendar_list
C20_AllButCalendarList ==
    call.op # "get_calendar_list" => C20_ErrorIsExceptionMessage

\* the field-metadata operations
FieldsOps == {"get_lead_fields", "get_deal_fields", "get_contact_fields", "get_company_fields"}

\* the shapes in which a metadata response holds the field mapping; the last one is the
\* mapping wrapped in a list wrapped in a dict
FieldShapes ==
    { L(<<D([result |-> FieldMap])>>), L(<<FieldMap>>), D([result |-> FieldMap]), FieldMap,
      D([result |-> L(<<FieldMap>>)]) }

\* C21: a field-metadata operation returns {success: true, fields: M}, M the flat field
\* mapping, for every shape of the response that holds M; an empty response gives the
\* empty mapping; the four operations give the same fields for the same response.
C21_FieldsAreFlatMapping ==
    (Returned("tool") /\ call.op \in FieldsOps /\ Responded) =>
        /\ stub.resp \in FieldShapes =>
                out.v.doc = D([success |-> B(TRUE), fields |-> FieldMap])
        /\ stub.resp \in {L(<<>>), D(EmptyDict), None} =>
                out.v.doc = D([success |-> B(TRUE), fields |-> D(EmptyDict)])
        /\ out.v = FieldsEnvelope(Val(stub.resp, <<>>), LeadFieldsPayload(stub.resp)).v

\* C21 for every response but the mapping wrapped in a list wrapped in a dict
C21_AllButListInDict ==
    stub.resp # D([result |-> L(<<FieldMap>>)]) => C21_FieldsAreFlatMapping

\* C22: the owner identifier is coerced best effort where it is coerced, ownerId in
\* get_calendar_list and owner_id in get_nearest_events: on a connected client whose
\* transport answers, one request is sent whose ownerId is the integer the value
\* converts to, or the value unchanged when it does not convert.
C22_OwnerCoercionIsBestEffort ==
    (Returned("tool") /\ connected /\ ~stub.raises) =>
        /\ call.op = "get_calendar_list" =>
                LET f == LoadsOr(call.args.filter_params, D(EmptyDict))
                IN  (~f.exc /\ IsDict(f.v) /\ Has(f.v, "ownerId")) =>
                        /\ Len(out.calls) = 1
                        /\ Sends("ownerId")
                        /\ out.calls[1].params.d["ownerId"] = SentOwner(f.v.d["ownerId"])
        /\ (call.op = "get_nearest_events" /\ Truthy(call.args.owner_id)) =>
                /\ Len(out.calls) = 1
                /\ Sends("ownerId")
                /\ out.calls[1].params.d["ownerId"] = SentOwner(call.args.owner_id)

\* C22 for every owner identifier that converts to an integer, and for get_calendar_list
C22_ConvertibleOrCalendarList ==
    (call.op = "get_nearest_events" => ~IntOf(call.args.owner_id).exc) =>
        C22_OwnerCoercionIsBestEffort

\* the request a project listing operation is to make through the given operation of
\* the transport
ProjectRequest(kind) ==
    CASE call.op = "get_projects" ->
            LET f == LoadsOr(call.args.filter_params, D(EmptyDict)).v
            IN  Request(kind, "sonet_group.get",
                        IF Truthy(f) THEN D([FILTER |-> f]) ELSE D(EmptyDict))
      [] call.op = "get_project_tasks" ->
            Request(kind, "tasks.task.list", D([filter |-> D([GROUP_ID |-> call.args.id])]))
      [] call.op = "get_project_members" ->
            Request(kind, "sonet_group.user.get", D([ID |-> call.args.id]))

\* a project listing operation is invoked on a connected client with a filter that parses
ProjectListingInvoked ==
    /\ Returned("tool")
    /\ call.op \in {"get_projects", "get_project_tasks", "get_project_members"}
    /\ connected
    /\ InvalidJsonArgs = {}

\* the envelope of a project listing holds the records of the response, truncated to a
\* positive limit, and echoes project_id for the project-scoped operations
ProjectRecordsReturned ==
    (~stub.raises /\ IsJSONList(stub.resp)) =>
        LET n == IF "limit" \in DOMAIN call.args /\ call.args.limit.i > 0
                    /\ call.args.limit.i < Len(stub.resp.l)
                 THEN call.args.limit.i ELSE Len(stub.resp.l)
        IN  /\ IsEnvelope(out)
            /\ out.v.doc.d["success"] = B(TRUE)
            /\ out.v.doc.d[ListOps[call.op]] = L(FirstN(stub.resp.l, n))
            /\ call.op # "get_projects" => out.v.doc.d["project_id"] = call.args.id

\* C23: get_projects, get_project_tasks and get_project_members each perform exactly one
\* request through the transport's single-page call operation and return the records of
\* that response, truncated to limit where given, with project_id echoed for the two
\* project-scoped operations.
C23_ProjectListsUseCall ==
    ProjectListingInvoked =>
        /\ out.calls = <<ProjectRequest("call")>>
        /\ ProjectRecordsReturned

\* what the three operations do instead: the one request goes through get_all
C23_ProjectListsUseGetAll ==
    ProjectListingInvoked =>
        /\ out.calls = <<ProjectRequest("get_all")>>
        /\ ProjectRecordsReturned

\* the text was written with ensure_ascii=False: non-ASCII characters are emitted as
\* they are, not as \uXXXX escape sequences
Verbatim(text) == ~text.ensure_ascii

\* C24: every envelope of every operation, success and failure alike, is serialized with
\* non-ASCII text emitted verbatim, an error message or an echoed argument included.
C24_EnvelopesEmitUnicodeVerbatim ==
    (Returned("tool") /\ IsEnvelope(out)) => Verbatim(out.v)

\* C24 for the success envelopes that carry records, one record or field metadata
C24_RecordEnvelopesVerbatim ==
    (/\ Returned("tool")
     /\ call.op \in DOMAIN ListOps \cup DOMAIN GetOps \cup FieldsOps
     /\ IsEnvelope(out)
     /\ out.v.doc.d["success"] = B(TRUE)) => Verbatim(out.v)

\* the registered tool resolved an application context for its call
ContextResolved == Returned("server") /\ ~get_app_context(call.reqctx).exc

\* C25: the client is connected before the application context is available to a tool
\* call (while the lifespan is entered, while _app_context is set and whenever a tool
\* resolved a context); the lifespan is left only through the disconnect of
\* get_bitrix_client, on a normal exit and on an exception alike, and entered only by a
\* connect that succeeded: a connect that fails yields no context and leaves the client
\* disconnected.
C25_ConnectedWhileContextAvailable ==
    /\ [](lifespan # "down" => connected)
    /\ [](app_context => connected /\ lifespan = "up")
    /\ [](ContextResolved => connected)
    /\ [][(lifespan # "down" /\ lifespan' = "down") => ~connected']_vars
    /\ [][(lifespan = "down" /\ lifespan' # "down") => connected']_vars
    /\ [][(lifespan = "down" /\ ~connected') => (lifespan' = "down" /\ ~app_context')]_vars

\* a registered tool resolved the context of the running lifespan and reached the
\* transport of the connected client
C25_Witness ==
    /\ ContextResolved
    /\ lifespan = "up" /\ app_context /\ connected
    /\ call.op = "get_contacts"
    /\ Len(out.calls) = 1

\* what get_leads and update_lead evaluate to for the arguments and the responses of the
\* invocation alone, on the handle as it is
Replayed ==
    IF call.op = "get_leads"
    THEN LeadTools_get_leads(Client(stub), call.args.filter_params, call.args.select_fields, call.args.limit)
    ELSE LeadTools_update_lead(Client(stub), call.args.id, call.args.fields)

C27_AtMostTwoRequestsNoRetry ==
    pc = "returned" =>
        /\ Len(out.calls) <= 2
        /\ (stub.raises /\ out.calls # <<>>) => (Len(out.calls) = 1 /\ IsFailure(out))

\* the only request of an invocation raised and the failure envelope came back
C27_Witness ==
    /\ Returned("tool")
    /\ call.op = "get_deals"
    /\ stub.raises
    /\ Len(out.calls) = 1
    /\ IsFailure(out)

\* C28: while _app_context is set on the server the client is connected: it is set
\* only on a connected client, it is gone before the client is disconnected, and a tool
\* call with neither a request context nor the fallback raises RuntimeError.
C28_FallbackContextRefersToConnectedClient ==
    /\ [](app_context => connected)
    /\ [][(~app_context /\ app_context') => (connected /\ connected')]_vars
    /\ [][(connected /\ ~connected') => (~app_context /\ ~app_context')]_vars
    /\ []((Returned("server") /\ ~call.reqctx /\ ~app_context) =>
            out = Raise("RuntimeError", "Bitrix24 application context is not initialized", <<>>))

\* a registered tool called without a request context resolved the fallback and used
\* the connected client
C28_Witness ==
    /\ Returned("server")
    /\ ~call.reqctx
    /\ app_context /\ connected
    /\ call.op = "get_contact"
    /\ out.calls # <<>>

\* C29: while the client is disconnected (before connect, after disconnect) every
\* tool-group operation returns a failure envelope and issues no transport request;
\* on a connected client an operation reaches the transport again.
C29_DisconnectedClientHandsOutNoHandle ==
    Returned("tool") =>
        /\ ~connected => (IsFailure(out) /\ out.calls = <<>>)
        /\ (connected /\ call.op \in {"get_lead", "get_deal"}) => Len(out.calls) = 1

\* get_lead on a disconnected client fails on the client property
C29_Witness ==
    /\ Returned("tool")
    /\ ~connected
    /\ call.op = "get_lead"
    /\ IsFailure(out)
    /\ out.v.doc.d["error"] = S("Client not connected. Use 'async with' or call connect() first.")
    /\ out.calls = <<>>

\* the fields and filter arguments of the invocation that are valid JSON and not a
\* JSON object
NonObjectArgs ==
    { k \in DOMAIN call.args \cap {"filter_params", "fields"} :
        /\ Truthy(call.args[k])
        /\ ~JsonLoads(call.args[k].s).exc
        /\ ~IsDict(JsonLoads(call.args[k].s).v) }

\* C30: a fields or filter argument that is valid JSON and not a JSON object makes the
\* create, update or list operation return a failure envelope without any request.
C30_NonObjectJsonIsRejected ==
    (Returned("tool") /\ NonObjectArgs # {}) => (IsFailure(out) /\ out.calls = <<>>)

\* the operations whose client method declares the argument as a dict reject it
C30_TypedOperationsReject ==
    (Returned("tool") /\ NonObjectArgs # {}
        /\ call.group \in {"LeadTools", "DealTools", "ContactTools", "CompanyTools"}
        /\ JsonLoads(call.args[CHOOSE k \in NonObjectArgs : TRUE].s).v # None)
    => (IsFailure(out) /\ out.calls = <<>>)

====
